---------------------------- MODULE Spec2Model ----------------------------
(***************************************************************************)
(* A model of the `el` HTML builder and renderer.                          *)
(*                                                                         *)
(* Strings are sequences of one-character strings, so that the character   *)
(* loops of the renderer and of the name validator are modelled character  *)
(* by character.  Rendering is a recursive operator that threads the text  *)
(* sink through every write, exactly as the `?` operator threads it.       *)
(***************************************************************************)
EXTENDS Integers, Sequences, FiniteSets, TLC

VARIABLES
    el,        \* the element under construction (the tree handed to render)
    res,       \* outcome of the last render of el, or NoResult
    tag_name,  \* input of the validator / escaping harness: a tag name
    text,      \* input of the validator / escaping harness: a text
    ret        \* value returned by the last validator call, or NoResult

vars == <<el, res, tag_name, text, ret>>

NoResult == [status |-> "none"]
Returned(v) == [status |-> "returned", value |-> v]

(***************************************************************************)
(* Characters                                                              *)
(***************************************************************************)
UpperCase == <<"A","B","C","D","E","F","G","H","I","J","K","L","M",
               "N","O","P","Q","R","S","T","U","V","W","X","Y","Z">>
LowerCase == <<"a","b","c","d","e","f","g","h","i","j","k","l","m",
               "n","o","p","q","r","s","t","u","v","w","x","y","z">>
Digits == {"0","1","2","3","4","5","6","7","8","9"}

Range(s) == {s[i] : i \in DOMAIN s}


\* Faulty variant: letters outside ASCII count as letters
is_ascii_alpha_Unicode(c) ==
    c \in Range(UpperCase) \cup Range(LowerCase) \cup {"é", "É"}

\* char::is_ascii_alphabetic
is_ascii_alpha(c) == c \in Range(UpperCase) \cup Range(LowerCase)

\* char::is_ascii_alphanumeric
is_ascii_alphanumeric(c) == is_ascii_alpha(c) \/ c \in Digits

\* char::to_ascii_lowercase
char_to_ascii_lowercase(c) ==
    IF \E i \in DOMAIN UpperCase : UpperCase[i] = c
    THEN LowerCase[CHOOSE i \in DOMAIN UpperCase : UpperCase[i] = c]
    ELSE c

\* str::to_ascii_lowercase
to_ascii_lowercase(s) == [i \in DOMAIN s |-> char_to_ascii_lowercase(s[i])]

\* s[from..] on characters (from is a zero-based character offset)
SliceFrom(s, from) == SubSeq(s, from + 1, Len(s))

\* .chars().take(n).collect()
Take(s, n) == SubSeq(s, 1, IF n < Len(s) THEN n ELSE Len(s))

starts_with(s, p) == Len(p) <= Len(s) /\ SubSeq(s, 1, Len(p)) = p

ends_with(s, p) ==
    Len(p) <= Len(s) /\ SubSeq(s, Len(s) - Len(p) + 1, Len(s)) = p


\* Faulty variant: the first character is not required to be a letter
is_valid_tag_name_AnyFirst(name) ==
    /\ name # <<>>
    /\ \A i \in DOMAIN name : is_ascii_alphanumeric(name[i])

(***************************************************************************)
(* check.rs: the name validator                                            *)
(***************************************************************************)
is_valid_tag_name(name) ==
    /\ name # <<>>
    /\ \A i \in DOMAIN Take(name, 1) : is_ascii_alpha(name[i])
    /\ \A i \in DOMAIN name : is_ascii_alphanumeric(name[i])

is_valid_attribute_name(name) ==
    /\ name # <<>>
    /\ \A i \in DOMAIN Take(name, 1) : is_ascii_alpha(name[i])
    /\ \A i \in DOMAIN name :
          is_ascii_alphanumeric(name[i]) \/ name[i] = "-" \/ name[i] = "_"

\* the characters of the matches!(trailing, ...) arm
RawTextDelimiters == {"\t", "\n", "\f", "\r", " ", ">", "/"}

\* text.match_indices("</"): the zero-based offsets of the occurrences, in
\* ascending order ("</" cannot overlap itself)
RECURSIVE MatchIndicesFrom(_, _)
MatchIndicesFrom(s, i) ==
    IF i + 1 >= Len(s) THEN <<>>
    ELSE IF s[i + 1] = "<" /\ s[i + 2] = "/"
         THEN <<i>> \o MatchIndicesFrom(s, i + 2)
         ELSE MatchIndicesFrom(s, i + 1)

match_indices(s) == MatchIndicesFrom(s, 0)

\* Faulty variant: a closing-tag-like occurrence at the very end of the text is
\* treated as delimited
RawTextStep_EndIsDelimiter(tag, s, i) ==
    LET start == i + 2
        potential_tag_name == Take(SliceFrom(s, start), Len(tag))
    IN  IF to_ascii_lowercase(potential_tag_name) # to_ascii_lowercase(tag)
        THEN "continue"
        ELSE LET rest == SliceFrom(s, start + Len(potential_tag_name))
             IN  IF rest = <<>> THEN "return_false"
                 ELSE IF rest[1] \in RawTextDelimiters THEN "return_false"
                 ELSE "continue"

\* one iteration of the loop body of is_valid_raw_text for the match at
\* offset i: "return_false" or "continue"
RawTextStep(tag, s, i) ==
    LET start == i + 2
        potential_tag_name == Take(SliceFrom(s, start), Len(tag))
    IN  IF to_ascii_lowercase(potential_tag_name) # to_ascii_lowercase(tag)
        THEN "continue"
        ELSE LET rest == SliceFrom(s, start + Len(potential_tag_name))
             IN  IF rest = <<>> THEN "continue"
                 ELSE IF rest[1] \in RawTextDelimiters THEN "return_false"
                 ELSE "continue"

\* Faulty variant: the scan stops at the first "</" instead of continuing
RawTextLoop_FirstOnly(tag, s, matches) ==
    IF matches = <<>> THEN TRUE
    ELSE RawTextStep(tag, s, Head(matches)) # "return_false"

RECURSIVE RawTextLoop(_, _, _)
RawTextLoop(tag, s, matches) ==
    IF matches = <<>> THEN TRUE
    ELSE IF RawTextStep(tag, s, Head(matches)) = "return_false" THEN FALSE
    ELSE RawTextLoop(tag, s, Tail(matches))

is_valid_raw_text(tag, s) == RawTextLoop(tag, s, match_indices(s))


\* the characters of the model that are not ASCII
NonAscii == {"é", "É"}

\* str::is_ascii, the condition of the assert! at the head of
\* is_valid_raw_text
is_ascii(s) == \A i \in DOMAIN s : s[i] \notin NonAscii

(***************************************************************************)
(* element.rs: the data model                                              *)
(***************************************************************************)
ElementKind == {"Void", "Template", "RawText", "EscapableRawText",
                "Foreign", "Normal"}

Raw(s) == [variant |-> "Raw", text |-> s]
Text(s) == [variant |-> "Text", text |-> s]
Comment(s) == [variant |-> "Comment", text |-> s]
ElementContent(e) == [variant |-> "Element", element |-> e]

\* BTreeMap::new
EmptyMap == [k \in {} |-> <<>>]

\* Content::doctype
doctype == Raw(<<"<","!","D","O","C","T","Y","P","E"," ","h","t","m","l",">">>)


\* Faulty variant: the name is lowercased for every kind
Element_new_LowercasesForeign(name, kind) ==
    [name |-> to_ascii_lowercase(name),
     kind |-> kind,
     attributes |-> EmptyMap,
     children |-> <<>>]

\* Element::new.  attributes is the BTreeMap as a function from its keys to
\* their values; its iteration order is computed by SortedKeys.
Element_new(name, kind) ==
    [name |-> IF kind # "Foreign" THEN to_ascii_lowercase(name) ELSE name,
     kind |-> kind,
     attributes |-> EmptyMap,
     children |-> <<>>]


(***************************************************************************)
(* Ordering of strings (the Ord of String: bytewise, here on ASCII)        *)
(***************************************************************************)
AsciiOrder ==
    <<"\t", "\n", "\f", "\r", " ", "!", "\"", "&", "(", ")", "-", "/",
      "0","1","2","3","4","5","6","7","8","9", ";", "<", "=", ">">>
    \o UpperCase \o <<"[", "]", "_">> \o LowerCase \o <<"~">>

CharCode(c) == CHOOSE i \in DOMAIN AsciiOrder : AsciiOrder[i] = c

RECURSIVE StrLess(_, _)
StrLess(a, b) ==
    IF b = <<>> THEN FALSE
    ELSE IF a = <<>> THEN TRUE
    ELSE IF Head(a) = Head(b) THEN StrLess(Tail(a), Tail(b))
    ELSE CharCode(Head(a)) < CharCode(Head(b))


\* Faulty variant: the keys in descending order
RECURSIVE SortedKeysOf_Descending(_)
SortedKeysOf_Descending(keys) ==
    IF keys = {} THEN <<>>
    ELSE LET greatest == CHOOSE k \in keys :
                             \A o \in keys \ {k} : StrLess(o, k)
         IN  <<greatest>> \o SortedKeysOf_Descending(keys \ {greatest})

\* BTreeMap iteration order: the keys in ascending order
RECURSIVE SortedKeysOf(_)
SortedKeysOf(keys) ==
    IF keys = {} THEN <<>>
    ELSE LET least == CHOOSE k \in keys :
                          \A o \in keys \ {k} : StrLess(k, o)
         IN  <<least>> \o SortedKeysOf(keys \ {least})

SortedKeys(attributes) == SortedKeysOf(DOMAIN attributes)

(***************************************************************************)
(* render.rs: errors and the sink                                          *)
(***************************************************************************)
Format == [type |-> "Format", arg |-> <<>>]
InvalidTagName(name) == [type |-> "InvalidTagName", arg |-> name]
InvalidAttrName(name) == [type |-> "InvalidAttrName", arg |-> name]
InvalidChild == [type |-> "InvalidChild", arg |-> <<>>]
InvalidRawText(s) == [type |-> "InvalidRawText", arg |-> s]


\* not an ErrorCause: the assert! of is_valid_raw_text failed and the call
\* of render panicked.  The panic is carried to the caller of render as the
\* cause of an error value; path segments added on its way mean nothing.
AssertionFailed == [type |-> "AssertionFailed", arg |-> <<>>]

\* Error::new
Error_new(cause) == [reverse_path |-> <<>>, cause |-> cause]

\* Result<()> together with the sink as the call left it
Ok(w) == [ok |-> TRUE, w |-> w]
Err(w, e) == [ok |-> FALSE, w |-> w, err |-> e]

\* the `?` operator: continue with the sink on Ok, return the Err otherwise
Then(r, K(_)) == IF r.ok THEN K(r.w) ELSE r

\* A sink (fmt::Write): the text accepted so far, the number of further
\* writes it accepts (Unlimited for a String) and the writes attempted.
Unlimited == -1

Sink(cap) == [out |-> <<>>, cap |-> cap, attempts |-> 0]

\* String::new() of render_to_string
String_new == Sink(Unlimited)

\* One write_str call on the sink, as made by a write! of one literal or
\* of one "{}" argument; a rejected write becomes ErrorCause::Format through
\* From<fmt::Error>
Write(w, s) ==
    IF w.cap = 0
    THEN Err([w EXCEPT !.attempts = @ + 1], Error_new(Format))
    ELSE Ok([out |-> w.out \o s,
             cap |-> IF w.cap > 0 THEN w.cap - 1 ELSE w.cap,
             attempts |-> w.attempts + 1])

\* write!(w, ...) of a format string with several pieces (literals and
\* arguments): one write_str per piece, in order, stopping at the first
\* rejected one
RECURSIVE WriteFmt(_, _)
WriteFmt(w, pieces) ==
    IF pieces = <<>> THEN Ok(w)
    ELSE Then(Write(w, Head(pieces)),
              LAMBDA w1 : WriteFmt(w1, Tail(pieces)))

(***************************************************************************)
(* render.rs: the three escaping routines                                  *)
(***************************************************************************)
\* Faulty variant: ">" is not escaped
TextEscapeChar_NoGt(c) ==
    CASE c = "&" -> <<"&", "a", "m", "p", ";">>
      [] c = "<" -> <<"&", "l", "t", ";">>
      [] OTHER   -> <<c>>

\* Faulty variant: "&" is not escaped
TextEscapeChar_NoAmp(c) ==
    CASE c = "<" -> <<"&", "l", "t", ";">>
      [] c = ">" -> <<"&", "g", "t", ";">>
      [] OTHER   -> <<c>>

\* the match arms of render_text
TextEscapeChar(c) ==
    CASE c = "&" -> <<"&", "a", "m", "p", ";">>
      [] c = "<" -> <<"&", "l", "t", ";">>
      [] c = ">" -> <<"&", "g", "t", ";">>
      [] OTHER   -> <<c>>

RECURSIVE RenderTextFrom(_, _, _)
RenderTextFrom(w, s, i) ==
    IF i > Len(s) THEN Ok(w)
    ELSE Then(Write(w, TextEscapeChar(s[i])),
              LAMBDA w1 : RenderTextFrom(w1, s, i + 1))

render_text(w, s) == RenderTextFrom(w, s, 1)

\* str::replace: every non-overlapping occurrence, left to right
RECURSIVE replace(_, _, _)
replace(s, from, to) ==
    IF s = <<>> THEN <<>>
    ELSE IF starts_with(s, from)
         THEN to \o replace(SliceFrom(s, Len(from)), from, to)
         ELSE <<Head(s)>> \o replace(Tail(s), from, to)


\* Faulty variant: the replacement of `--!>` is left out
CommentText_TwoReplacements(s) ==
    replace(replace(s, <<"<","!","-","-">>, <<"<","!","=","=">>),
            <<"-","-",">">>, <<"=","=",">">>)

\* the three .replace calls of render_comment
CommentText(s) ==
    replace(replace(replace(s, <<"<","!","-","-">>, <<"<","!","=","=">>),
                    <<"-","-",">">>, <<"=","=",">">>),
            <<"-","-","!",">">>, <<"=","=","!",">">>)


\* Faulty variant: no space is written after a text that ends with `<!-`
render_comment_NoTrailingSpace(w, s) ==
    LET t == CommentText(s)
        lead == IF starts_with(t, <<">">>) \/ starts_with(t, <<"-",">">>)
                THEN Write(w, <<" ">>) ELSE Ok(w)
    IN  Then(lead, LAMBDA w1 : Write(w1, t))

render_comment(w, s) ==
    LET t == CommentText(s)
        lead == IF starts_with(t, <<">">>) \/ starts_with(t, <<"-",">">>)
                THEN Write(w, <<" ">>) ELSE Ok(w)
    IN  Then(lead, LAMBDA w1 :
        Then(Write(w1, t), LAMBDA w2 :
        IF ends_with(t, <<"<","!","-">>) THEN Write(w2, <<" ">>) ELSE Ok(w2)))

\* Faulty variant: the attribute value is escaped like text: `"` passes through
AttrEscapeChar_LikeText(c) == TextEscapeChar(c)

\* the match arms of render_attribute_value
AttrEscapeChar(c) ==
    IF c = "\"" THEN <<"&", "q", "u", "o", "t", ";">> ELSE <<c>>

RECURSIVE RenderAttrValueFrom(_, _, _)
RenderAttrValueFrom(w, s, i) ==
    IF i > Len(s) THEN Ok(w)
    ELSE Then(Write(w, AttrEscapeChar(s[i])),
              LAMBDA w1 : RenderAttrValueFrom(w1, s, i + 1))

render_attribute_value(w, s) ==
    Then(Write(w, <<"\"">>), LAMBDA w1 :
    Then(RenderAttrValueFrom(w1, s, 1), LAMBDA w2 :
    Write(w2, <<"\"">>)))

(***************************************************************************)
(* render.rs: Error::at                                                    *)
(***************************************************************************)
DigitSeq == <<"0","1","2","3","4","5","6","7","8","9">>

\* usize::to_string
RECURSIVE to_string(_)
to_string(n) ==
    IF n < 10 THEN <<DigitSeq[n + 1]>>
    ELSE to_string(n \div 10) \o <<DigitSeq[(n % 10) + 1]>>

\* Error::at: push the segment of the child at index onto reverse_path
Error_at(e, index, child) ==
    [e EXCEPT !.reverse_path =
        Append(@, IF child.variant = "Element"
                  THEN to_string(index) \o <<"[">> \o child.element.name
                                        \o <<"]">>
                  ELSE to_string(index))]


\* Option
None == [some |-> FALSE]
Some(v) == [some |-> TRUE, v |-> v]

\* what Error::path has for a reverse_path that is not empty: lines 60-67
\* take every item as a pair (index, name) with an optional name, and the
\* items are the Strings that Error::at pushed (lines 20, 33-36), so the
\* expression is not well-typed and yields no path
MismatchedTypes ==
    [status |-> "mismatched types", expected |-> "(index, name)",
     found |-> "String"]

\* Error::path: "/" for an empty reverse_path
Error_path(e) ==
    IF e.reverse_path = <<>> THEN Returned(<<"/">>)
    ELSE MismatchedTypes


\* Faulty variant: the last invalid key in iteration order is reported
RECURSIVE FirstInvalidAttr_Last(_)
FirstInvalidAttr_Last(keys) ==
    IF keys = <<>> THEN <<FALSE, <<>>>>
    ELSE LET rest == FirstInvalidAttr_Last(Tail(keys))
         IN  IF rest[1] THEN rest
             ELSE IF ~is_valid_attribute_name(Head(keys))
             THEN <<TRUE, Head(keys)>>
             ELSE rest

(***************************************************************************)
(* render.rs: Render for Content, Element and Document                     *)
(***************************************************************************)
\* the first attribute key, in iteration order, that is no valid name
RECURSIVE FirstInvalidAttr(_)
FirstInvalidAttr(keys) ==
    IF keys = <<>> THEN <<FALSE, <<>>>>
    ELSE IF ~is_valid_attribute_name(Head(keys)) THEN <<TRUE, Head(keys)>>
    ELSE FirstInvalidAttr(Tail(keys))


\* Faulty variant: `=` and the quoted value are written for an empty value too
RECURSIVE RenderAttrsFrom_AlwaysQuoted(_, _, _)
RenderAttrsFrom_AlwaysQuoted(w, attributes, keys) ==
    IF keys = <<>> THEN Ok(w)
    ELSE LET name == Head(keys)
             value == attributes[name]
         IN  Then(WriteFmt(w, <<<<" ">>, name>>), LAMBDA w1 :
             Then(Then(Write(w1, <<"=">>),
                       LAMBDA w2 : render_attribute_value(w2, value)),
                  LAMBDA w3 :
                     RenderAttrsFrom_AlwaysQuoted(w3, attributes, Tail(keys))))

\* the attribute loop of the opening tag
RECURSIVE RenderAttrsFrom(_, _, _)
RenderAttrsFrom(w, attributes, keys) ==
    IF keys = <<>> THEN Ok(w)
    ELSE LET name == Head(keys)
             value == attributes[name]
         IN  Then(WriteFmt(w, <<<<" ">>, name>>), LAMBDA w1 :
             Then(IF value # <<>>
                  THEN Then(Write(w1, <<"=">>),
                            LAMBDA w2 : render_attribute_value(w2, value))
                  ELSE Ok(w1),
                  LAMBDA w3 : RenderAttrsFrom(w3, attributes, Tail(keys))))

\* Faulty variant: an empty Foreign element is closed like a normal one
CloseEmpty_NoSelfClosing(w, e) ==
    CASE e.kind = "Void" -> Write(w, <<">">>)
      [] OTHER           -> WriteFmt(w, <<<<">", "<", "/">>, e.name, <<">">>>>)

\* the "Closing early" match
CloseEmpty(w, e) ==
    CASE e.kind = "Void"    -> Write(w, <<">">>)
      [] e.kind = "Foreign" -> Write(w, <<" ", "/", ">">>)
      [] OTHER -> WriteFmt(w, <<<<">", "<", "/">>, e.name, <<">">>>>)


\* Faulty variant: no closing tag is written after the children
CloseTag_Omitted(w, e) == Ok(w)

\* the closing tag
CloseTag(w, e) ==
    IF e.kind # "Void"
    THEN WriteFmt(w, <<<<"<", "/">>, e.name, <<">">>>>)
    ELSE Ok(w)

RECURSIVE render_content(_, _)
RECURSIVE render_element(_, _)
RECURSIVE RenderChild(_, _, _)
RECURSIVE RenderChildrenFrom(_, _, _)

\* impl Render for Content
render_content(w, c) ==
    CASE c.variant = "Raw"     -> Write(w, c.text)
      [] c.variant = "Text"    -> render_text(w, c.text)
      [] c.variant = "Comment" -> render_comment(w, c.text)
      [] c.variant = "Element" -> render_element(w, c.element)

\* Faulty variant: a RawText element escapes its Text children like a normal one
RenderChild_RawTextEscaped(w, e, child) ==
    CASE e.kind = "Void" -> Err(w, Error_new(InvalidChild))
      [] e.kind = "RawText" ->
            IF child.variant \in {"Raw", "Text"} THEN render_content(w, child)
            ELSE Err(w, Error_new(InvalidChild))
      [] e.kind = "EscapableRawText" ->
            IF child.variant \in {"Raw", "Text"} THEN render_content(w, child)
            ELSE Err(w, Error_new(InvalidChild))
      [] OTHER -> render_content(w, child)

\* Faulty variant: an EscapableRawText element checks its Text children like a
\* RawText one
RenderChild_EscapableChecked(w, e, child) ==
    CASE e.kind = "Void" -> Err(w, Error_new(InvalidChild))
      [] e.kind \in {"RawText", "EscapableRawText"} ->
            IF child.variant = "Raw" THEN render_content(w, child)
            ELSE IF child.variant = "Text"
                    /\ is_valid_raw_text(e.name, child.text)
                 THEN IF e.kind = "RawText" THEN Write(w, child.text)
                      ELSE render_content(w, child)
            ELSE IF child.variant = "Text"
                 THEN Err(w, Error_new(InvalidRawText(child.text)))
            ELSE Err(w, Error_new(InvalidChild))
      [] OTHER -> render_content(w, child)

\* Faulty variant: a Void element renders its children like a normal one
RenderChild_VoidAccepts(w, e, child) ==
    CASE e.kind = "RawText" ->
            IF child.variant = "Raw" THEN render_content(w, child)
            ELSE IF child.variant = "Text"
                    /\ is_valid_raw_text(e.name, child.text)
                 THEN Write(w, child.text)
            ELSE IF child.variant = "Text"
                 THEN Err(w, Error_new(InvalidRawText(child.text)))
            ELSE Err(w, Error_new(InvalidChild))
      [] e.kind = "EscapableRawText" ->
            IF child.variant \in {"Raw", "Text"} THEN render_content(w, child)
            ELSE Err(w, Error_new(InvalidChild))
      [] OTHER -> render_content(w, child)

\* Faulty variant: a raw text or escapable raw text element renders an Element
\* child before rejecting it
RenderChild_ChildRenderedFirst(w, e, child) ==
    CASE e.kind = "Void" -> Err(w, Error_new(InvalidChild))
      [] e.kind = "RawText" ->
            IF child.variant = "Raw" THEN render_content(w, child)
            ELSE IF child.variant = "Text"
                    /\ is_valid_raw_text(e.name, child.text)
                 THEN Write(w, child.text)
            ELSE IF child.variant = "Text"
                 THEN Err(w, Error_new(InvalidRawText(child.text)))
            ELSE Then(render_content(w, child),
                      LAMBDA w1 : Err(w1, Error_new(InvalidChild)))
      [] e.kind = "EscapableRawText" ->
            IF child.variant \in {"Raw", "Text"} THEN render_content(w, child)
            ELSE Then(render_content(w, child),
                      LAMBDA w1 : Err(w1, Error_new(InvalidChild)))
      [] OTHER -> render_content(w, child)


\* Faulty variant: a Text child of a Foreign element is written unescaped
RenderChild_ForeignTextUnescaped(w, e, child) ==
    CASE e.kind = "Void" -> Err(w, Error_new(InvalidChild))
      [] e.kind = "RawText" ->
            IF child.variant = "Raw" THEN render_content(w, child)
            ELSE IF child.variant = "Text"
                    /\ is_valid_raw_text(e.name, child.text)
                 THEN Write(w, child.text)
            ELSE IF child.variant = "Text"
                 THEN Err(w, Error_new(InvalidRawText(child.text)))
            ELSE Err(w, Error_new(InvalidChild))
      [] e.kind = "EscapableRawText" ->
            IF child.variant \in {"Raw", "Text"} THEN render_content(w, child)
            ELSE Err(w, Error_new(InvalidChild))
      [] e.kind = "Foreign" /\ child.variant = "Text" -> Write(w, child.text)
      [] OTHER -> render_content(w, child)


\* Faulty variant: a Raw child of a RawText element is validated like a Text
RenderChild_RawValidated(w, e, child) ==
    CASE e.kind = "Void" -> Err(w, Error_new(InvalidChild))
      [] e.kind = "RawText" ->
            IF child.variant \in {"Raw", "Text"}
                    /\ is_valid_raw_text(e.name, child.text)
                 THEN Write(w, child.text)
            ELSE IF child.variant \in {"Raw", "Text"}
                 THEN Err(w, Error_new(InvalidRawText(child.text)))
            ELSE Err(w, Error_new(InvalidChild))
      [] e.kind = "EscapableRawText" ->
            IF child.variant \in {"Raw", "Text"} THEN render_content(w, child)
            ELSE Err(w, Error_new(InvalidChild))
      [] OTHER -> render_content(w, child)

\* the match on self.kind in the children loop, for one child
RenderChild(w, e, child) ==
    CASE e.kind = "Void" -> Err(w, Error_new(InvalidChild))
      [] e.kind = "RawText" ->
            IF child.variant = "Raw" THEN render_content(w, child)
            ELSE IF child.variant = "Text" /\ ~is_ascii(e.name)
                 THEN Err(w, Error_new(AssertionFailed))
            ELSE IF child.variant = "Text"
                    /\ is_valid_raw_text(e.name, child.text)
                 THEN Write(w, child.text)
            ELSE IF child.variant = "Text"
                 THEN Err(w, Error_new(InvalidRawText(child.text)))
            ELSE Err(w, Error_new(InvalidChild))
      [] e.kind = "EscapableRawText" ->
            IF child.variant \in {"Raw", "Text"} THEN render_content(w, child)
            ELSE Err(w, Error_new(InvalidChild))
      [] OTHER -> render_content(w, child)


\* Faulty variant: after a failed child the later children are still rendered
RECURSIVE RenderChildrenFrom_KeepsGoing(_, _, _)
RenderChildrenFrom_KeepsGoing(w, e, i) ==
    IF i >= Len(e.children) THEN Ok(w)
    ELSE LET child == e.children[i + 1]
             r == RenderChild(w, e, child)
         IN  IF r.ok THEN RenderChildrenFrom_KeepsGoing(r.w, e, i + 1)
             ELSE Err(RenderChildrenFrom_KeepsGoing(r.w, e, i + 1).w,
                      Error_at(r.err, i, child))


\* Faulty variant: after a failed child the later children are still
\* checked, and the error of the last failing one is returned
RECURSIVE RenderChildrenFrom_ReportsLast(_, _, _)
RenderChildrenFrom_ReportsLast(w, e, i) ==
    IF i >= Len(e.children) THEN Ok(w)
    ELSE LET child == e.children[i + 1]
             r == RenderChild(w, e, child)
         IN  IF r.ok THEN RenderChildrenFrom_ReportsLast(r.w, e, i + 1)
             ELSE LET later == RenderChildrenFrom_ReportsLast(r.w, e, i + 1)
                  IN  IF later.ok THEN Err(r.w, Error_at(r.err, i, child))
                      ELSE Err(r.w, later.err)

\* the children loop: i is the zero-based index of enumerate()
RenderChildrenFrom(w, e, i) ==
    IF i >= Len(e.children) THEN Ok(w)
    ELSE LET child == e.children[i + 1]
             r == RenderChild(w, e, child)
         IN  IF r.ok THEN RenderChildrenFrom(r.w, e, i + 1)
             ELSE Err(r.w, Error_at(r.err, i, child))


\* Faulty variant: the attribute names are checked after `<name` is written
render_element_ChecksAttrsLate(w, e) ==
    LET keys == SortedKeys(e.attributes)
        bad == FirstInvalidAttr(keys)
    IN  IF ~is_valid_tag_name(e.name)
        THEN Err(w, Error_new(InvalidTagName(e.name)))
        ELSE
        Then(WriteFmt(w, <<<<"<">>, e.name>>), LAMBDA w1 :
        IF bad[1]
        THEN Err(w1, Error_new(InvalidAttrName(bad[2])))
        ELSE
        Then(RenderAttrsFrom(w1, e.attributes, keys), LAMBDA w2 :
        IF e.children = <<>> THEN CloseEmpty(w2, e)
        ELSE
        Then(Write(w2, <<">">>), LAMBDA w3 :
        Then(RenderChildrenFrom(w3, e, 0), LAMBDA w4 :
        CloseTag(w4, e)))))

\* impl Render for Element
render_element(w, e) ==
    LET keys == SortedKeys(e.attributes)
        bad == FirstInvalidAttr(keys)
    IN  IF ~is_valid_tag_name(e.name)
        THEN Err(w, Error_new(InvalidTagName(e.name)))
        ELSE IF bad[1]
        THEN Err(w, Error_new(InvalidAttrName(bad[2])))
        ELSE
        Then(WriteFmt(w, <<<<"<">>, e.name>>), LAMBDA w1 :
        Then(RenderAttrsFrom(w1, e.attributes, keys), LAMBDA w2 :
        IF e.children = <<>> THEN CloseEmpty(w2, e)
        ELSE
        Then(Write(w2, <<">">>), LAMBDA w3 :
        Then(RenderChildrenFrom(w3, e, 0), LAMBDA w4 :
        CloseTag(w4, e)))))


\* Faulty variant: the root is rendered without the doctype
render_document_NoDoctype(w, e) == render_element(w, e)

\* impl Render for Document (Document(e) is modelled by its element e)
render_document(w, e) ==
    Then(render_content(w, doctype), LAMBDA w1 : render_element(w1, e))

\* Render::render_to_string: the String on Ok, the error alone on Err
ToStringResult(r) ==
    IF r.ok THEN [status |-> "ok", out |-> r.w.out]
    ELSE [status |-> "err", err |-> r.err]

render_to_string(e) == ToStringResult(render_element(String_new, e))

document_render_to_string(e) ==
    ToStringResult(render_document(String_new, e))

(***************************************************************************)
(* element.rs: the builder                                                 *)
(***************************************************************************)

\* Attr::new
Attr_new(name, value) == [name |-> name, value |-> value, append_by |-> None]

\* Attr::append
Attr_append(name, value, separator) ==
    [name |-> name, value |-> value, append_by |-> Some(separator)]

\* Attr::yes
Attr_yes(name) == Attr_new(name, <<>>)

\* Attr::class
Attr_class(class) == Attr_append(<<"c","l","a","s","s">>, class, <<" ">>)

\* BTreeMap insert of key k with value v
MapInsert(m, k, v) ==
    [x \in DOMAIN m \cup {k} |-> IF x = k THEN v ELSE m[x]]


\* Faulty variant: an append-mode attribute overwrites the value too
add_attr_AlwaysReplaces(e, attr) ==
    LET name == IF e.kind # "Foreign" THEN to_ascii_lowercase(attr.name)
                ELSE attr.name
    IN  [e EXCEPT !.attributes = MapInsert(@, name, attr.value)]

\* impl ElementComponent for Attr: add_to_element
add_attr(e, attr) ==
    LET name == IF e.kind # "Foreign" THEN to_ascii_lowercase(attr.name)
                ELSE attr.name
    IN  IF name \notin DOMAIN e.attributes
        THEN [e EXCEPT !.attributes = MapInsert(@, name, attr.value)]
        ELSE IF ~attr.append_by.some
        THEN [e EXCEPT !.attributes = MapInsert(@, name, attr.value)]
        ELSE [e EXCEPT !.attributes =
                 MapInsert(@, name, @[name] \o attr.append_by.v \o attr.value)]

\* impl<T: Into<Content>> ElementComponent for T: add_to_element
add_content(e, c) == [e EXCEPT !.children = Append(@, c)]


\* the components that consist of further components
ContentOf(c) == [c |-> "content", content |-> c]
AttrOf(a) == [c |-> "attr", attr |-> a]
OptionNone == [c |-> "none"]
OptionSome(x) == [c |-> "some", inner |-> x]
ResultOk(x) == [c |-> "ok", inner |-> x]
ResultErr(x) == [c |-> "err", inner |-> x]
Unit == [c |-> "unit"]
Tuple(items) == [c |-> "tuple", items |-> items]
Array(items) == [c |-> "array", items |-> items]
Vec(items) == [c |-> "vec", items |-> items]

\* the maps from attribute name to value that are components: a BTreeMap
\* yields its entries in ascending key order, a HashMap in an order that is
\* not determined by its entries
BTreeMap(map) == [c |-> "btreemap", map |-> map]
HashMap(map) == [c |-> "hashmap", map |-> map]

\* a HashMap whose into_iter yields the keys in the given order
HashMap_into_iter(map, order) ==
    [c |-> "hashmap", map |-> map, order |-> order]

\* the orders in which a HashMap with these keys may yield them
KeyOrders(keys) ==
    {o \in [1..Cardinality(keys) -> keys] :
        \A i, j \in DOMAIN o : i # j => o[i] # o[j]}

\* the component with an iteration order chosen for every HashMap in it
RECURSIVE IterationOrders(_)
RECURSIVE IterationOrdersOfAll(_)
IterationOrders(comp) ==
    CASE comp.c = "hashmap" ->
            {HashMap_into_iter(comp.map, o) : o \in KeyOrders(DOMAIN comp.map)}
      [] comp.c \in {"some", "ok", "err"} ->
            {[comp EXCEPT !.inner = x] : x \in IterationOrders(comp.inner)}
      [] comp.c \in {"tuple", "array", "vec"} ->
            {[comp EXCEPT !.items = x] : x \in IterationOrdersOfAll(comp.items)}
      [] OTHER -> {comp}

IterationOrdersOfAll(items) ==
    IF items = <<>> THEN {<<>>}
    ELSE {<<h>> \o t : h \in IterationOrders(Head(items)),
                       t \in IterationOrdersOfAll(Tail(items))}

\* `for (name, value) in self { Attr::new(name, value).add_to_element(element) }`
RECURSIVE add_entries(_, _, _)
add_entries(e, map, keys) ==
    IF keys = <<>> THEN e
    ELSE add_entries(add_attr(e, Attr_new(Head(keys), map[Head(keys)])),
                     map, Tail(keys))

RECURSIVE add_to_element(_, _)
RECURSIVE add_each_RightToLeft(_, _)
RECURSIVE add_each(_, _)

\* Faulty variant: the components of a composite are added last to first
add_each_RightToLeft(e, items) ==
    IF items = <<>> THEN e
    ELSE add_to_element(add_each_RightToLeft(e, Tail(items)), Head(items))

\* `for component in self { component.add_to_element(element) }` and the
\* tuple impls: left to right
add_each(e, items) ==
    IF items = <<>> THEN e
    ELSE add_each(add_to_element(e, Head(items)), Tail(items))

\* ElementComponent::add_to_element
add_to_element(e, comp) ==
    CASE comp.c = "content" -> add_content(e, comp.content)
      [] comp.c = "attr"    -> add_attr(e, comp.attr)
      [] comp.c = "none"    -> e
      [] comp.c = "unit"    -> e
      [] comp.c \in {"some", "ok", "err"} -> add_to_element(e, comp.inner)
      [] comp.c \in {"tuple", "array", "vec"} -> add_each(e, comp.items)
      [] comp.c = "btreemap" ->
            add_entries(e, comp.map, SortedKeysOf(DOMAIN comp.map))
      [] comp.c = "hashmap" -> add_entries(e, comp.map, comp.order)

(***************************************************************************)
(* Operations shared by the specifications                                 *)
(***************************************************************************)
\* all strings over alphabet of at most n characters
StringsUpTo(alphabet, n) == UNION {[1..k -> alphabet] : k \in 0..n}


\* el.render_to_string()
RenderToString ==
    /\ res = NoResult
    /\ res' = render_to_string(el)
    /\ UNCHANGED <<el, tag_name, text, ret>>

(***************************************************************************)
(* SpecRawText: is_valid_raw_text on every small text, and the rendering   *)
(* of a raw text element that holds the text as its only child             *)
(***************************************************************************)
MaxRawTextLen == 6

RawTagNames == {<<"a">>, <<"a", "B">>}

RawAlphabet == {"<", "/", "a", "B", ">"}

\* "</" + a casing of a tag name + each of the delimiters (and "x", "&")
DelimitedTexts ==
    {<<"<", "/">> \o t \o <<d>> :
        t \in {<<"a">>, <<"A">>, <<"a", "b">>, <<"a", "B">>},
        d \in RawTextDelimiters \cup {"x", "&"}}

RawTexts == StringsUpTo(RawAlphabet, MaxRawTextLen) \cup DelimitedTexts

InitRawText ==
    /\ tag_name \in RawTagNames
    /\ text \in RawTexts
    /\ el = add_content(Element_new(tag_name, "RawText"), Text(text))
    /\ res = NoResult
    /\ ret = NoResult

\* check::is_valid_raw_text(tag_name, text)
CheckRawText ==
    /\ ret = NoResult
    /\ ret' = Returned(is_valid_raw_text(tag_name, text))
    /\ UNCHANGED <<el, res, tag_name, text>>

NextRawText == CheckRawText \/ RenderToString

SpecRawText == InitRawText /\ [][NextRawText]_vars

\* the rendering of an element without attributes whose children emit body
Tagged(name, body) ==
    <<"<">> \o name \o <<">">> \o body \o <<"<", "/">> \o name \o <<">">>

\* s holds, at the one-based position i, "</" then the characters of tag
\* under ASCII case folding
ClosingTagLikeAt(tag, s, i) ==
    /\ i + 1 + Len(tag) <= Len(s)
    /\ s[i] = "<"
    /\ s[i + 1] = "/"
    /\ \A k \in 1..Len(tag) :
          char_to_ascii_lowercase(s[i + 1 + k]) = char_to_ascii_lowercase(tag[k])

\* ... immediately followed by tab, LF, FF, CR, space, ">" or "/"
DelimitedClosingTagAt(tag, s, i) ==
    /\ ClosingTagLikeAt(tag, s, i)
    /\ i + 2 + Len(tag) <= Len(s)
    /\ s[i + 2 + Len(tag)] \in {"\t", "\n", "\f", "\r", " ", ">", "/"}

HasDelimitedClosingTag(tag, s) ==
    \E i \in 1..Len(s) : DelimitedClosingTagAt(tag, s, i)

\* ... followed by nothing (the text ends) or by any other character
UndelimitedClosingTagAt(tag, s, i) ==
    /\ ClosingTagLikeAt(tag, s, i)
    /\ ~DelimitedClosingTagAt(tag, s, i)

\* C3: a RawText element with valid names renders its Text child by the
\* verdict of is_valid_raw_text(name, text): when true the text is written
\* character for character, with no escaping, between the tags; when false
\* render fails with InvalidRawText carrying exactly that text.
C3_RawTextDispatch ==
    (res # NoResult /\ el.kind = "RawText") =>
        IF is_valid_raw_text(el.name, text)
        THEN res = [status |-> "ok", out |-> Tagged(el.name, text)]
        ELSE /\ res.status = "err"
             /\ res.err.cause = InvalidRawText(text)

C3_Witness ==
    /\ res # NoResult
    /\ res.status = "ok"
    /\ \E i \in DOMAIN text : text[i] = "<"
    /\ \E i \in DOMAIN text : text[i] = ">"
    /\ \E i \in DOMAIN text : text[i] = "/"

C3_WitnessErr ==
    /\ res # NoResult
    /\ res.status = "err"
    /\ res.err.cause.type = "InvalidRawText"

\* C4: is_valid_raw_text(tag_name, text) is false exactly when text holds
\* "</", then tag_name under ASCII case folding, then one of tab, LF, FF,
\* CR, space, ">", "/"; in every other case it is true.
C4_RawTextVerdict ==
    ret # NoResult =>
        (ret.value = FALSE <=> HasDelimitedClosingTag(tag_name, text))

\* a rejected text whose first "</" is not the closing tag
C4_Witness ==
    /\ ret = Returned(FALSE)
    /\ Len(match_indices(text)) >= 2
    /\ ~DelimitedClosingTagAt(tag_name, text, match_indices(text)[1] + 1)

\* C5: a RawText element whose Text child holds "</" + its own name (any
\* casing) followed by the end of the text or by a character that is no
\* delimiter, and no delimited occurrence, renders with the text unchanged.
C5_BareClosingTagAccepted ==
    (/\ res # NoResult
     /\ el.kind = "RawText"
     /\ \E i \in 1..Len(text) : UndelimitedClosingTagAt(el.name, text, i)
     /\ ~HasDelimitedClosingTag(el.name, text))
        => res = [status |-> "ok", out |-> Tagged(el.name, text)]

\* accepted: the text ends with "</" + name in another casing
C5_Witness ==
    /\ res # NoResult
    /\ res.status = "ok"
    /\ el.name = <<"a", "b">>
    /\ ends_with(text, <<"<", "/", "a", "B">>)

(***************************************************************************)
(* SpecText: render_text on every small text, and the rendering of an      *)
(* escapable raw text element that holds the text as its only child        *)
(***************************************************************************)
MaxTextLen == 4

textarea == <<"t", "e", "x", "t", "a", "r", "e", "a">>

TextTagNames == {<<"t">>, textarea}

TextAlphabet == {"&", "<", ">", ";", "l", "t", "/"}

\* texts of the crate's tests and texts that hold an entity or a closing tag
ExampleTexts ==
    {<<"f", "o", "o", " ", "<", "p", ">", " ", "&", " ", "b", "a", "r">>,
     <<"&", "a", "m", "p", ";">>,
     <<"&", "g", "t", ";">>,
     <<"&", "a", "m", "p", ";", "l", "t", ";">>,
     <<"<", "/", "t", "e", "x", "t", "a", "r", "e", "a", ">">>}

Texts == StringsUpTo(TextAlphabet, MaxTextLen) \cup ExampleTexts

InitText ==
    /\ tag_name \in TextTagNames
    /\ text \in Texts
    /\ el = add_content(Element_new(tag_name, "EscapableRawText"), Text(text))
    /\ res = NoResult
    /\ ret = NoResult

\* render_text(&mut String::new(), text)
CallRenderText ==
    /\ ret = NoResult
    /\ ret' = Returned(render_text(String_new, text))
    /\ UNCHANGED <<el, res, tag_name, text>>

NextText == CallRenderText \/ RenderToString

SpecText == InitText /\ [][NextText]_vars

\* C6: an EscapableRawText element with valid names emits its Text child
\* through the text-escaping rule and never fails with InvalidRawText, even
\* when the text holds "</" + its own name + ">"; a textarea with the text
\* `foo <p> & bar` renders `<textarea>foo &lt;p&gt; &amp; bar</textarea>`.
C6_EscapableRawTextEscapes ==
    (res # NoResult /\ el.kind = "EscapableRawText") =>
        /\ res = [status |-> "ok",
                  out |-> Tagged(el.name, render_text(String_new, text).w.out)]
        /\ (el.name = textarea /\ text = <<"f", "o", "o", " ", "<", "p", ">", " ", "&", " ", "b", "a", "r">>) =>
              res.out = <<"<", "t", "e", "x", "t", "a", "r", "e", "a", ">", "f", "o", "o", " ", "&", "l", "t", ";", "p", "&", "g", "t", ";", " ", "&", "a", "m", "p", ";", " ", "b", "a", "r", "<", "/", "t", "e", "x", "t", "a", "r", "e", "a", ">">>

\* rendered: the text is the closing tag of the element itself
C6_Witness ==
    /\ res # NoResult
    /\ res.status = "ok"
    /\ el.kind = "EscapableRawText"
    /\ text = <<"<", "/">> \o el.name \o <<">">>

\* the replacement the escaping rule prescribes for one character
EntityOf(c) ==
    CASE c = "&" -> <<"&", "a", "m", "p", ";">>
      [] c = "<" -> <<"&", "l", "t", ";">>
      [] c = ">" -> <<"&", "g", "t", ";">>
      [] OTHER   -> <<c>>

\* the offset in the escaped output at which the image of s[i] starts
EscapedOffset(s, i) ==
    (i - 1) + 4 * Cardinality({j \in 1..(i - 1) : s[j] = "&"})
            + 3 * Cardinality({j \in 1..(i - 1) : s[j] \in {"<", ">"}})

\* C8: render_text maps its input character by character: "&" to "&amp;",
\* "<" to "&lt;", ">" to "&gt;", every other character to itself, in the
\* same order; the output holds no "<" and no ">".
C8_TextEscaping ==
    ret # NoResult =>
        /\ ret.value.ok
        /\ LET out == ret.value.w.out
           IN  /\ Len(out) = EscapedOffset(text, Len(text) + 1)
               /\ \A i \in 1..Len(text) :
                     SubSeq(out, EscapedOffset(text, i) + 1,
                                 EscapedOffset(text, i + 1)) = EntityOf(text[i])
               /\ \A k \in 1..Len(out) : out[k] \notin {"<", ">"}

\* escaped: a text that holds each of the three characters and another one
C8_Witness ==
    /\ ret # NoResult
    /\ {"&", "<", ">", "t"} \subseteq Range(text)

\* what a parser reads back: the three entities decoded, left to right
RECURSIVE DecodeEntities(_)
DecodeEntities(s) ==
    IF s = <<>> THEN <<>>
    ELSE IF starts_with(s, <<"&", "a", "m", "p", ";">>)
         THEN <<"&">> \o DecodeEntities(SliceFrom(s, 5))
    ELSE IF starts_with(s, <<"&", "l", "t", ";">>)
         THEN <<"<">> \o DecodeEntities(SliceFrom(s, 4))
    ELSE IF starts_with(s, <<"&", "g", "t", ";">>)
         THEN <<">">> \o DecodeEntities(SliceFrom(s, 4))
    ELSE <<Head(s)>> \o DecodeEntities(Tail(s))

\* C9: text escaping is invertible: decoding the three entities in
\* render_text(t), left to right, yields exactly t.
C9_TextEscapingRoundTrip ==
    ret # NoResult =>
        /\ ret.value.ok
        /\ DecodeEntities(ret.value.w.out) = text

\* escaped and decoded: a text that itself reads as an entity
C9_Witness ==
    /\ ret # NoResult
    /\ text = <<"&", "l", "t", ";">>
    /\ ret.value.w.out = <<"&", "a", "m", "p", ";", "l", "t", ";">>

(***************************************************************************)
(* SpecAttr: render_attribute_value on every small value, and the          *)
(* rendering of an element that carries the value in its id attribute      *)
(***************************************************************************)
MaxValueLen == 4

AttrTagNames == {<<"a">>, <<"i", "n", "p", "u", "t">>}

ValueAlphabet == {"\"", "&", "<", ">", "v", " "}

Values == StringsUpTo(ValueAlphabet, MaxValueLen) \cup {<<"s", "a", "y", " ", "\"", "h", "i", "\"", " ", "&", " ", "<", "g", "o", ">">>}

\* Attr::id
Attr_id(id) == Attr_new(<<"i", "d">>, id)

InitAttr ==
    /\ tag_name \in AttrTagNames
    /\ text \in Values
    /\ \E kind \in {"Normal", "Void"} :
          el = add_attr(Element_new(tag_name, kind), Attr_id(text))
    /\ res = NoResult
    /\ ret = NoResult

\* render_attribute_value(&mut String::new(), text)
CallRenderAttributeValue ==
    /\ ret = NoResult
    /\ ret' = Returned(render_attribute_value(String_new, text))
    /\ UNCHANGED <<el, res, tag_name, text>>

NextAttr == CallRenderAttributeValue \/ RenderToString

SpecAttr == InitAttr /\ [][NextAttr]_vars

\* the offset in the escaped value at which the image of v[i] starts
QuotedOffset(v, i) ==
    (i - 1) + 5 * Cardinality({j \in 1..(i - 1) : v[j] = "\""})

\* q is `"` + e + `"`, where e is v with each `"` replaced by `&quot;` and
\* every other character unchanged, so that e holds no `"`
IsQuotedValue(q, v) ==
    /\ Len(q) = QuotedOffset(v, Len(v) + 1) + 2
    /\ q[1] = "\""
    /\ q[Len(q)] = "\""
    /\ LET e == SubSeq(q, 2, Len(q) - 1)
       IN  /\ \A i \in 1..Len(v) :
                 SubSeq(e, QuotedOffset(v, i) + 1, QuotedOffset(v, i + 1))
                    = IF v[i] = "\"" THEN <<"&", "q", "u", "o", "t", ";">> ELSE <<v[i]>>
           /\ \A k \in 1..Len(e) : e[k] # "\""

\* C10: a non-empty attribute value v is emitted as `="` + e(v) + `"`, where
\* e replaces each `"` by `&quot;` and leaves every other character
\* (`&`, `<`, `>` included) unchanged; the text between the two quotes holds
\* no `"`.
C10_AttributeValueQuoted ==
    /\ ret # NoResult =>
          ret.value.ok /\ IsQuotedValue(ret.value.w.out, text)
    /\ (res # NoResult /\ text # <<>>) =>
          /\ res.status = "ok"
          /\ LET open == <<"<">> \o el.name \o <<" ", "i", "d", "=">>
                 close == IF el.kind = "Void" THEN <<">">>
                          ELSE <<">", "<", "/">> \o el.name \o <<">">>
             IN  /\ starts_with(res.out, open)
                 /\ ends_with(res.out, close)
                 /\ IsQuotedValue(SubSeq(res.out, Len(open) + 1,
                                         Len(res.out) - Len(close)), text)

\* rendered: a value that holds `"` and the characters text escaping changes
C10_Witness ==
    /\ res # NoResult
    /\ ret # NoResult
    /\ {"\"", "&", "<", ">"} \subseteq Range(text)


\* C11: an attribute whose value is the empty string is emitted as a space
\* and its name only, with no `=` and no quotes; an attribute whose value is
\* not empty is always emitted as a space, its name, `=` and the quoted
\* value.
C11_EmptyValueBare ==
    res # NoResult =>
       /\ res.status = "ok"
       /\ LET open == <<"<">> \o el.name \o <<" ", "i", "d">>
              close == IF el.kind = "Void" THEN <<">">>
                       ELSE <<">", "<", "/">> \o el.name \o <<">">>
              part == SubSeq(res.out, Len(open) + 1, Len(res.out) - Len(close))
          IN  /\ starts_with(res.out, open)
              /\ ends_with(res.out, close)
              /\ Len(res.out) >= Len(open) + Len(close)
              /\ IF el.attributes[<<"i", "d">>] = <<>>
                 THEN /\ part = <<>>
                      /\ \A k \in 1..Len(res.out) : res.out[k] \notin {"=", "\""}
                 ELSE /\ Len(part) >= 3
                      /\ part[1] = "="
                      /\ IsQuotedValue(Tail(part), el.attributes[<<"i", "d">>])

\* rendered: an element whose only attribute has the empty value
C11_Witness ==
    /\ res # NoResult
    /\ el.attributes[<<"i", "d">>] = <<>>
    /\ el.kind = "Void"
    /\ res.out = <<"<", "i", "n", "p", "u", "t", " ", "i", "d", ">">>

\* rendered: the same element with a value that is not empty
C11_WitnessValue ==
    /\ res # NoResult
    /\ el.attributes[<<"i", "d">>] = <<"v">>
    /\ el.kind = "Void"
    /\ res.out = <<"<", "i", "n", "p", "u", "t", " ", "i", "d", "=", "\"", "v", "\"", ">">>

(***************************************************************************)
(* Spec: an element is built component by component and rendered           *)
(***************************************************************************)
MaxChildren == 2
MaxAttrs == 1
MaxAttrValueLen == 3

\* names handed to Element::new: one with an upper case letter, one that
\* is no valid tag name
RootNames == {<<"P">>, <<"1", "x">>}

\* a void element that was given a child
input_with_child ==
    add_content(Element_new(<<"i", "n", "p", "u", "t">>, "Void"), Text(<<"x">>))

\* the components a caller adds as children
ContentPool ==
    {Raw(<<"<", "/", "p", ">">>),
     Text(<<"a", "&", "b">>),
     Text(<<"<", "/", "p", ">">>),
     Comment(<<"c">>),
     ElementContent(Element_new(<<"b", "r">>, "Void")),
     ElementContent(Element_new(<<"1", "x">>, "Normal")),
     ElementContent(input_with_child),
     ElementContent(add_content(Element_new(<<"e", "m">>, "Normal"), Text(<<"<", ">">>)))}

\* the components a caller adds as attributes
AttrPool ==
    {Attr_id(<<"x">>),
     Attr_yes(<<"B", "-", "1">>),
     Attr_new(<<"1", "d">>, <<"v">>),
     Attr_class(<<"c">>)}

Init ==
    /\ \E name \in RootNames, kind \in ElementKind :
          el = Element_new(name, kind)
    /\ res = NoResult
    /\ tag_name = <<>>
    /\ text = <<>>
    /\ ret = NoResult

\* el.add(attr)
AddAttr ==
    \E attr \in AttrPool :
        /\ LET e == add_attr(el, attr)
           IN  /\ Cardinality(DOMAIN e.attributes) <= MaxAttrs
               /\ \A k \in DOMAIN e.attributes :
                     Len(e.attributes[k]) <= MaxAttrValueLen
               /\ el' = e
        /\ res' = NoResult
        /\ UNCHANGED <<tag_name, text, ret>>

\* el.add(content)
AddContent ==
    \E c \in ContentPool :
        /\ Len(el.children) < MaxChildren
        /\ el' = add_content(el, c)
        /\ res' = NoResult
        /\ UNCHANGED <<tag_name, text, ret>>

Next == AddAttr \/ AddContent \/ RenderToString

Spec == Init /\ [][Next]_vars

\* the tag name and every attribute name of e are valid
ValidNames(e) ==
    /\ is_valid_tag_name(e.name)
    /\ \A k \in DOMAIN e.attributes : is_valid_attribute_name(k)

\* C1: a Void element with valid names and at least one child (of any
\* variant, Raw included) fails to render with InvalidChild; it never
\* renders successfully.
C1_VoidWithChildFails ==
    (/\ res # NoResult
     /\ el.kind = "Void"
     /\ ValidNames(el)
     /\ el.children # <<>>)
        => /\ res.status = "err"
           /\ res.err.cause = InvalidChild

\* failed: a void element whose only child is Raw
C1_Witness ==
    /\ res # NoResult
    /\ res.status = "err"
    /\ el.kind = "Void"
    /\ ValidNames(el)
    /\ Len(el.children) = 1
    /\ el.children[1].variant = "Raw"

\* the opening tag of e up to and excluding its ">"
OpeningTag(e) ==
    LET start == Write(String_new, <<"<">> \o e.name)
    IN  RenderAttrsFrom(start.w, e.attributes, SortedKeys(e.attributes)).w.out

\* C2: an element with valid names and no children renders successfully,
\* and after its name and attributes it emits exactly ">" when Void, " />"
\* when Foreign, and "></name>" for every other kind.
C2_EmptyElementClosing ==
    (res # NoResult /\ ValidNames(el) /\ el.children = <<>>) =>
        /\ res.status = "ok"
        /\ res.out = OpeningTag(el) \o
              (CASE el.kind = "Void"    -> <<">">>
                 [] el.kind = "Foreign" -> <<" ", "/", ">">>
                 [] OTHER -> <<">", "<", "/">> \o el.name \o <<">">>)

\* rendered: an empty Foreign element with an attribute
C2_Witness ==
    /\ res # NoResult
    /\ res.status = "ok"
    /\ el.kind = "Foreign"
    /\ el.children = <<>>
    /\ DOMAIN el.attributes # {}

\* the child of e at the one-based position i is accepted by a raw text or
\* escapable raw text parent
AcceptedRawChild(e, i) ==
    \/ e.children[i].variant = "Raw"
    \/ /\ e.children[i].variant = "Text"
       /\ e.kind = "RawText" => is_valid_raw_text(e.name, e.children[i].text)

\* C7: a RawText or EscapableRawText element with valid names that has a
\* Comment or Element child never renders; when that child is reached (the
\* children before it are accepted) render fails with InvalidChild at its
\* index, whatever the child holds: an Element child with an invalid tag
\* name yields InvalidChild, not InvalidTagName.
C7_RawTextRejectsCommentAndElement ==
    (/\ res # NoResult
     /\ el.kind \in {"RawText", "EscapableRawText"}
     /\ ValidNames(el))
        => \A i \in 1..Len(el.children) :
              el.children[i].variant \in {"Comment", "Element"} =>
                 /\ res.status = "err"
                 /\ (\A j \in 1..(i - 1) : AcceptedRawChild(el, j)) =>
                       /\ res.err.cause = InvalidChild
                       /\ res.err.reverse_path
                             = <<Error_at(Error_new(InvalidChild), i - 1,
                                          el.children[i]).reverse_path[1]>>

\* rejected: the second child is an Element with an invalid tag name
C7_Witness ==
    /\ res # NoResult
    /\ el.kind \in {"RawText", "EscapableRawText"}
    /\ Len(el.children) = 2
    /\ el.children[1].variant = "Text"
    /\ el.children[2].variant = "Element"
    /\ ~is_valid_tag_name(el.children[2].element.name)
    /\ res.status = "err"
    /\ res.err.cause = InvalidChild


(***************************************************************************)
(* SpecAttrs: attributes of distinct names are added to an empty element   *)
(* in any order and the element is rendered (lib.rs, test attributes)      *)
(***************************************************************************)
MaxOrderAttrs == 4

\* replace-mode attributes; "mB" keeps its case on a Foreign element only
OrderAttrPool ==
    { Attr_new(<<"n", "a", "m", "e">>, <<"t", "e", "n", "t", "a", "c", "l", "e", "s">>),
      Attr_new(<<"t", "y", "p", "e">>, <<"n", "u", "m", "b", "e", "r">>),
      Attr_new(<<"m", "i", "n">>, <<"1", "0">>),
      Attr_new(<<"m", "a", "x">>, <<"1", "0", "0">>),
      Attr_yes(<<"m">>),
      Attr_new(<<"m", "-", "x">>, <<"x", " ", "y">>),
      Attr_new(<<"m", "B">>, <<"w">>),
      Attr_new(<<"m", "_">>, <<"z">>) }

OrderElements ==
    { Element_new(<<"i", "n", "p", "u", "t">>, "Void"),
      Element_new(<<"a">>, "Normal"),
      Element_new(<<"s", "v", "g">>, "Foreign") }

\* ret records the attributes in the order of the with(...) calls
InitAttrs ==
    /\ el \in OrderElements
    /\ tag_name = el.name
    /\ text = <<>>
    /\ res = NoResult
    /\ ret = Returned(<<>>)

\* the key under which add_to_element stores attr
KeyIn(e, attr) ==
    IF e.kind # "Foreign" THEN to_ascii_lowercase(attr.name) ELSE attr.name

\* el.with(attr), for an attribute whose name the element does not hold yet
WithAttr ==
    /\ Cardinality(DOMAIN el.attributes) < MaxOrderAttrs
    /\ \E attr \in OrderAttrPool :
          /\ KeyIn(el, attr) \notin DOMAIN el.attributes
          /\ el' = add_attr(el, attr)
          /\ ret' = Returned(Append(ret.value, attr))
    /\ res' = NoResult
    /\ UNCHANGED <<tag_name, text>>

RenderAttrs ==
    /\ res = NoResult
    /\ res' = render_to_string(el)
    /\ UNCHANGED <<el, tag_name, text, ret>>

NextAttrs == WithAttr \/ RenderAttrs

SpecAttrs == InitAttrs /\ [][NextAttrs]_vars

\* a is before b in lexicographic order of the character codes
LexLess(a, b) ==
    \E i \in 1..(Len(a) + 1) :
       /\ i <= Len(b)
       /\ \A j \in 1..(i - 1) : a[j] = b[j]
       /\ (i = Len(a) + 1 \/ CharCode(a[i]) < CharCode(b[i]))

\* the text of one attribute whose value holds no `"`
AttrText(name, value) ==
    <<" ">> \o name \o
    (IF value = <<>> THEN <<>> ELSE <<"=", "\"">> \o value \o <<"\"">>)

RECURSIVE ConcatAttrTexts(_)
ConcatAttrTexts(attrs) ==
    IF attrs = <<>> THEN <<>>
    ELSE AttrText(Head(attrs).name, Head(attrs).value)
            \o ConcatAttrTexts(Tail(attrs))

\* the attributes given, as name/value pairs under their keys, in ascending
\* order of the keys
GivenInKeyOrder ==
    LET given == {[name |-> KeyIn(el, ret.value[i]), value |-> ret.value[i].value] :
                     i \in DOMAIN ret.value}
    IN  [i \in 1..Cardinality(given) |->
            CHOOSE a \in given :
               Cardinality({b \in given : LexLess(b.name, a.name)}) = i - 1]

\* C12: the attributes are emitted in ascending lexicographic order of their
\* keys, each key exactly once, whatever the order in which they were added.
C12_AttributesInKeyOrder ==
    res # NoResult =>
       LET order == GivenInKeyOrder
       IN  /\ res.status = "ok"
           /\ Len(order) = Len(ret.value)
           /\ \A i, j \in DOMAIN order :
                 i < j => LexLess(order[i].name, order[j].name)
           /\ res.out = <<"<">> \o el.name \o ConcatAttrTexts(order)
                           \o (CASE el.kind = "Void" -> <<">">>
                                 [] el.kind = "Foreign" -> <<" ", "/", ">">>
                                 [] OTHER -> <<">", "<", "/">> \o el.name \o <<">">>)

\* rendered: name, type, min, max were added in this order, which is not the
\* order of the keys
C12_Witness ==
    /\ res # NoResult
    /\ Len(ret.value) = 4
    /\ ret.value[1].name = <<"n", "a", "m", "e">>
    /\ ret.value[2].name = <<"t", "y", "p", "e">>
    /\ ret.value[3].name = <<"m", "i", "n">>
    /\ ret.value[4].name = <<"m", "a", "x">>
    /\ res.out = <<"<", "i", "n", "p", "u", "t", " ", "m", "a", "x", "=", "\"", "1", "0", "0", "\"", " ", "m", "i", "n", "=", "\"", "1", "0", "\"", " ", "n", "a", "m", "e", "=", "\"", "t", "e", "n", "t", "a", "c", "l", "e", "s", "\"", " ", "t", "y", "p", "e", "=", "\"", "n", "u", "m", "b", "e", "r", "\"", ">">>

\* rendered: the same four attributes added in another order give the same text
C12_WitnessOtherOrder ==
    /\ res # NoResult
    /\ Len(ret.value) = 4
    /\ ret.value[1].name = <<"m", "a", "x">>
    /\ ret.value[2].name = <<"t", "y", "p", "e">>
    /\ ret.value[3].name = <<"n", "a", "m", "e">>
    /\ ret.value[4].name = <<"m", "i", "n">>
    /\ res.out = <<"<", "i", "n", "p", "u", "t", " ", "m", "a", "x", "=", "\"", "1", "0", "0", "\"", " ", "m", "i", "n", "=", "\"", "1", "0", "\"", " ", "n", "a", "m", "e", "=", "\"", "t", "e", "n", "t", "a", "c", "l", "e", "s", "\"", " ", "t", "y", "p", "e", "=", "\"", "n", "u", "m", "b", "e", "r", "\"", ">">>

\* rendered: keys told apart by `-`, an upper-case letter and `_`, and a key
\* that is a prefix of the others
C12_WitnessForeign ==
    /\ res # NoResult
    /\ el.kind = "Foreign"
    /\ res.out = <<"<", "s", "v", "g", " ", "m", " ", "m", "-", "x", "=", "\"", "x", " ", "y", "\"", " ", "m", "B", "=", "\"", "w", "\"", " ", "m", "_", "=", "\"", "z", "\"", " ", "/", ">">>

(***************************************************************************)
(* SpecComment: render_comment on every small text, and the rendering of   *)
(* an element that holds the text as its only child, a comment             *)
(***************************************************************************)
MaxCommentLen == 5

CommentAlphabet == {"<", "!", "-", ">", "c"}

CommentExamples ==
    { <<"<", "!", "-", "-", " ", "c", " ", "-", "-", ">">>, <<"-", "-", "!", ">", "<", "!", "-">>, <<"-", ">", "-", "-", ">">>, <<">", "<", "!", "-", "-", "!", ">", "-", "-", ">">> }

CommentTexts == StringsUpTo(CommentAlphabet, MaxCommentLen) \cup CommentExamples

CommentParents ==
    { Element_new(<<"p">>, "Normal"),
      Element_new(<<"t", "e", "m", "p", "l", "a", "t", "e">>, "Template"),
      Element_new(<<"g">>, "Foreign") }

InitComment ==
    /\ text \in CommentTexts
    /\ \E parent \in CommentParents : el = add_content(parent, Comment(text))
    /\ tag_name = el.name
    /\ res = NoResult
    /\ ret = NoResult

\* render_comment(&mut String::new(), text)
CallRenderComment ==
    /\ ret = NoResult
    /\ ret' = Returned(render_comment(String_new, text))
    /\ UNCHANGED <<el, res, tag_name, text>>

NextComment == CallRenderComment \/ RenderToString

SpecComment == InitComment /\ [][NextComment]_vars

\* p occurs in s at position i
OccursAt(s, p, i) ==
    /\ i >= 1
    /\ i + Len(p) - 1 <= Len(s)
    /\ SubSeq(s, i, i + Len(p) - 1) = p

Contains(s, p) == \E i \in 1..Len(s) : OccursAt(s, p, i)

\* s with every occurrence of p overwritten by q, for p and q of one length
\* and p a pattern of which no two occurrences overlap
Overwritten(s, p, q) ==
    [i \in 1..Len(s) |->
        IF \E j \in 1..i : OccursAt(s, p, j) /\ i < j + Len(p)
        THEN LET j == CHOOSE j \in 1..i : OccursAt(s, p, j) /\ i < j + Len(p)
             IN  q[i - j + 1]
        ELSE s[i]]

\* the text m of C13
Mangled(s) ==
    Overwritten(Overwritten(Overwritten(s, <<"<", "!", "-", "-">>, <<"<", "!", "=", "=">>),
                            <<"-", "-", ">">>, <<"=", "=", ">">>),
                <<"-", "-", "!", ">">>, <<"=", "=", "!", ">">>)

\* the text m' of C13
Spaced(m) ==
    (IF (Len(m) >= 1 /\ m[1] = ">") \/ (Len(m) >= 2 /\ m[1] = "-" /\ m[2] = ">")
     THEN <<" ">> ELSE <<>>)
    \o m \o
    (IF Len(m) >= 3 /\ SubSeq(m, Len(m) - 2, Len(m)) = <<"<", "!", "-">>
     THEN <<" ">> ELSE <<>>)

\* C13: the text emitted for a comment is m', where m is the text after
\* replacing over the whole string `<!--` by `<!==`, then `-->` by `==>`,
\* then `--!>` by `==!>`, and m' is m with one space prepended exactly when m
\* starts with `>` or `->` and one space appended exactly when m ends with
\* `<!-`.
C13_CommentMangling ==
    ret # NoResult =>
       /\ ret.value.ok
       /\ ret.value.w.out = Spaced(Mangled(text))

\* called: a text that holds all three patterns, starts with `>` and whose
\* replacement ends with `<!-`
C13_Witness ==
    /\ ret # NoResult
    /\ text = <<"-", "-", "!", ">", "<", "!", "-">>
    /\ ret.value.w.out = <<"=", "=", "!", ">", "<", "!", "-", " ">>

\* called: a text that gets the leading space
C13_WitnessLead ==
    /\ ret # NoResult
    /\ text = <<"-", ">", "-", "-", ">">>
    /\ ret.value.w.out = <<" ", "-", ">", "=", "=", ">">>

\* C14: for every comment text, the text emitted by render_comment holds
\* none of `<!--`, `-->`, `--!>`, does not start with `>` or `->` and does
\* not end with `<!-`.
C14_CommentBodySafe ==
    ret # NoResult =>
       LET body == ret.value.w.out
       IN  /\ ret.value.ok
           /\ ~Contains(body, <<"<", "!", "-", "-">>)
           /\ ~Contains(body, <<"-", "-", ">">>)
           /\ ~Contains(body, <<"-", "-", "!", ">">>)
           /\ ~OccursAt(body, <<">">>, 1)
           /\ ~OccursAt(body, <<"-", ">">>, 1)
           /\ ~OccursAt(body, <<"<", "!", "-">>, Len(body) - 2)

\* called: a text that starts with `>`, holds `<!--`, `--!>` and `-->`, the
\* first two overlapping
C14_Witness ==
    /\ ret # NoResult
    /\ text = <<">", "<", "!", "-", "-", "!", ">", "-", "-", ">">>
    /\ ret.value.w.out = <<" ", ">", "<", "!", "=", "=", "!", ">", "=", "=", ">">>

\* C15: a comment under a Normal, Template or Foreign parent is emitted as
\* the opening delimiter `<!--`, then the mangled comment text, then the
\* closing delimiter `-->`.
C15_CommentDelimited ==
    res # NoResult =>
       /\ res.status = "ok"
       /\ res.out = <<"<">> \o el.name \o <<">">>
                       \o <<"<", "!", "-", "-">> \o Spaced(Mangled(text)) \o <<"-", "-", ">">>
                       \o <<"<", "/">> \o el.name \o <<">">>

\* rendered: p with the comment "c" as its only child; the text stands
\* between the tags with no delimiter around it
C15_Witness ==
    /\ res # NoResult
    /\ el.kind = "Normal"
    /\ text = <<"c">>
    /\ res.out = <<"<", "p", ">", "c", "<", "/", "p", ">">>

(***************************************************************************)
(* SpecDocument: the element of Spec, or the page of the test              *)
(* simple_website, is turned into a Document and rendered                  *)
(***************************************************************************)
\* html((head(title("Hello")), body((h1("Hello"), p(("Hello ", em("world"), "!"))))))
simple_website ==
    LET E(name, kind, children) ==
            [Element_new(name, kind) EXCEPT !.children = children]
        title == E(<<"t", "i", "t", "l", "e">>, "EscapableRawText", <<Text(<<"H", "e", "l", "l", "o">>)>>)
        head == E(<<"h", "e", "a", "d">>, "Normal", <<ElementContent(title)>>)
        h1 == E(<<"h", "1">>, "Normal", <<Text(<<"H", "e", "l", "l", "o">>)>>)
        em == E(<<"e", "m">>, "Normal", <<Text(<<"w", "o", "r", "l", "d">>)>>)
        p == E(<<"p">>, "Normal",
               <<Text(<<"H", "e", "l", "l", "o", " ">>), ElementContent(em), Text(<<"!">>)>>)
        body == E(<<"b", "o", "d", "y">>, "Normal", <<ElementContent(h1), ElementContent(p)>>)
    IN  E(<<"h", "t", "m", "l">>, "Normal", <<ElementContent(head), ElementContent(body)>>)

InitDocument ==
    /\ \/ \E name \in RootNames, kind \in ElementKind :
             el = Element_new(name, kind)
       \/ el = simple_website
    /\ res = NoResult
    /\ tag_name = <<>>
    /\ text = <<>>
    /\ ret = NoResult

\* el.into_document().render_to_string()
RenderDocument ==
    /\ res = NoResult
    /\ res' = document_render_to_string(el)
    /\ UNCHANGED <<el, tag_name, text, ret>>

NextDocument == AddAttr \/ AddContent \/ RenderDocument

SpecDocument == InitDocument /\ [][NextDocument]_vars

\* C16: rendering Document(root) writes exactly `<!DOCTYPE html>` followed
\* immediately by the rendering of root; it succeeds exactly when rendering
\* root succeeds, and on failure it returns root's error, with the same cause
\* and the same path.
C16_DocumentIsDoctypeThenRoot ==
    res # NoResult =>
       LET root == render_to_string(el)
       IN  /\ (res.status = "ok") <=> (root.status = "ok")
           /\ root.status = "ok" =>
                 res.out = <<"<", "!", "D", "O", "C", "T", "Y", "P", "E", " ", "h", "t", "m", "l", ">">> \o root.out
           /\ root.status = "err" =>
                 /\ res.err.cause = root.err.cause
                 /\ res.err.reverse_path = root.err.reverse_path

\* rendered: the page of simple_website
C16_Witness ==
    /\ res # NoResult
    /\ res.status = "ok"
    /\ res.out = <<"<", "!", "D", "O", "C", "T", "Y", "P", "E", " ", "h", "t", "m", "l", ">", "<", "h", "t", "m", "l", ">", "<", "h", "e", "a", "d", ">", "<", "t", "i", "t", "l", "e", ">", "H", "e", "l", "l", "o", "<", "/", "t", "i", "t", "l", "e", ">", "<", "/", "h", "e", "a", "d", ">", "<", "b", "o", "d", "y", ">", "<", "h", "1", ">", "H", "e", "l", "l", "o", "<", "/", "h", "1", ">", "<", "p", ">", "H", "e", "l", "l", "o", " ", "<", "e", "m", ">", "w", "o", "r", "l", "d", "<", "/", "e", "m", ">", "!", "<", "/", "p", ">", "<", "/", "b", "o", "d", "y", ">", "<", "/", "h", "t", "m", "l", ">">>

\* rendered: a document whose root fails below the root, at a child of a
\* child
C16_WitnessErr ==
    /\ res # NoResult
    /\ res.status = "err"
    /\ Len(res.err.reverse_path) = 2
    /\ res.err.cause = InvalidChild

(***************************************************************************)
(* SpecPath: an element is given children, rendered, and the path of the   *)
(* error is asked for (render.rs, the example of Error::path)              *)
(***************************************************************************)
MaxPathChildren == 2

PathRootNames == RootNames \cup {<<"f", "o", "r", "m">>}

\* input("hello")
input_hello ==
    add_content(Element_new(<<"i", "n", "p", "u", "t">>, "Void"), Text(<<"h", "e", "l", "l", "o">>))

PathContentPool ==
    ContentPool \cup {Text(<<"g", "r", "e", "e", "t", "i", "n", "g", ":", " ">>), ElementContent(input_hello)}

InitPath ==
    /\ \E name \in PathRootNames, kind \in ElementKind :
          el = Element_new(name, kind)
    /\ res = NoResult
    /\ tag_name = <<>>
    /\ text = <<>>
    /\ ret = NoResult

\* el.add(content)
AddPathContent ==
    \E c \in PathContentPool :
        /\ Len(el.children) < MaxPathChildren
        /\ el' = add_content(el, c)
        /\ res' = NoResult
        /\ ret' = NoResult
        /\ UNCHANGED <<tag_name, text>>

\* let result = el.render_to_string()
RenderForPath ==
    /\ res = NoResult
    /\ res' = render_to_string(el)
    /\ UNCHANGED <<el, tag_name, text, ret>>

\* result.unwrap_err().path()
CallPath ==
    /\ res # NoResult
    /\ res.status = "err"
    /\ ret = NoResult
    /\ ret' = Error_path(res.err)
    /\ UNCHANGED <<el, res, tag_name, text>>

NextPath == AddPathContent \/ RenderForPath \/ CallPath

SpecPath == InitPath /\ [][NextPath]_vars

\* the number written by the digits at the start of s
RECURSIVE LeadingNumber(_, _)
LeadingNumber(s, acc) ==
    IF s = <<>> \/ Head(s) \notin Range(DigitSeq) THEN acc
    ELSE LeadingNumber(Tail(s),
                       10 * acc + (CHOOSE d \in 0..9 : DigitSeq[d + 1] = Head(s)))

\* the child indices of the failing node, root first, as the error holds them
FailingIndices(err) ==
    [k \in 1..Len(err.reverse_path) |->
        LeadingNumber(err.reverse_path[Len(err.reverse_path) + 1 - k], 0)]

\* one segment per frame: `/i(name)` for an Element child, `/i` otherwise
RECURSIVE SegmentsFrom(_, _)
SegmentsFrom(e, indices) ==
    IF indices = <<>> THEN <<>>
    ELSE LET i == Head(indices)
             child == e.children[i + 1]
         IN  IF child.variant = "Element"
             THEN <<"/">> \o to_string(i) \o <<"(">> \o child.element.name
                     \o <<")">> \o SegmentsFrom(child.element, Tail(indices))
             ELSE <<"/">> \o to_string(i)

\* C17: when render of a root element fails at a node reached through the
\* child indices i1, ..., ik, Error::path() is the concatenation, root first,
\* of `/i(name)` for a child that is an Element with tag name `name` and `/i`
\* for any other child; it is `/` when the root itself failed.  For
\* form(text, input(child)) it is `/1(input)/0`.
C17_ErrorPath ==
    ret # NoResult =>
       LET indices == FailingIndices(res.err)
       IN  /\ ret.status = "returned"
           /\ ret.value = IF indices = <<>> THEN <<"/">>
                          ELSE SegmentsFrom(el, indices)

\* asked: form(("greeting: ", input("hello"))) failed at the child of input;
\* the error holds the items `0` and `1[input]`, and path() has no
\* `/1(input)/0` for them
C17_Witness ==
    /\ ret # NoResult
    /\ el.name = <<"f", "o", "r", "m">>
    /\ el.kind = "Normal"
    /\ el.children = <<Text(<<"g", "r", "e", "e", "t", "i", "n", "g", ":", " ">>), ElementContent(input_hello)>>
    /\ res.err.cause = InvalidChild
    /\ res.err.reverse_path = <<<<"0">>, <<"1", "[", "i", "n", "p", "u", "t", "]">>>>
    /\ ret = MismatchedTypes

(***************************************************************************)
(* SpecNames: elements with every small tag name or every small attribute  *)
(* name, with and without a second attribute and a failing child, are      *)
(* rendered                                                                *)
(***************************************************************************)
MaxNameLen == 3

NameAlphabet == {"a", "Z", "1", "-", "_"}

Names == StringsUpTo(NameAlphabet, MaxNameLen)

\* a valid and an invalid attribute name
FewKeys == {<<"i", "d">>, <<"1", "d">>}

FewTags == {<<"p">>}

\* attributes added after the one under test: none, one with an invalid
\* name that sorts before every letter, one with a valid name, one with an
\* invalid name that sorts after the keys under test
ExtraAttrs ==
    {<<>>, <<Attr_new(<<"1", "d">>, <<"w">>)>>, <<Attr_yes(<<"b">>)>>,
     <<Attr_new(<<"z", "~">>, <<"w">>)>>}

\* children: none, or a void element that was given a child
ExtraChildren == {<<>>, <<ElementContent(input_with_child)>>}

RECURSIVE add_all_attrs(_, _)
add_all_attrs(e, attrs) ==
    IF attrs = <<>> THEN e
    ELSE add_all_attrs(add_attr(e, Head(attrs)), Tail(attrs))

InitNames ==
    /\ \/ tag_name \in Names /\ text \in FewKeys
       \/ tag_name \in FewTags /\ text \in Names
    /\ \E kind \in {"Normal", "Foreign"}, extra \in ExtraAttrs,
          children \in ExtraChildren :
          el = [add_all_attrs(Element_new(tag_name, kind),
                              <<Attr_new(text, <<"v">>)>> \o extra)
                   EXCEPT !.children = children]
    /\ res = NoResult
    /\ ret = NoResult

RenderNamed ==
    /\ res = NoResult
    /\ res' = render_to_string(el)
    /\ UNCHANGED <<el, tag_name, text, ret>>

NextNames == RenderNamed

SpecNames == InitNames /\ [][NextNames]_vars

AsciiLetters == Range(UpperCase) \cup Range(LowerCase)

AsciiDigits == Digits

\* the name is empty, or its first character is not an ASCII letter, or some
\* character is not ASCII alphanumeric
BadTagName(name) ==
    \/ name = <<>>
    \/ name[1] \notin AsciiLetters
    \/ \E i \in 1..Len(name) : name[i] \notin AsciiLetters \cup AsciiDigits

\* the key is empty, or its first character is not an ASCII letter, or some
\* character is not ASCII alphanumeric, `-` or `_`
BadAttrName(name) ==
    \/ name = <<>>
    \/ name[1] \notin AsciiLetters
    \/ \E i \in 1..Len(name) :
          name[i] \notin AsciiLetters \cup AsciiDigits \cup {"-", "_"}

\* C18: render fails with InvalidTagName carrying the element's name if and
\* only if the name is empty, or its first character is not an ASCII letter,
\* or some character is not ASCII alphanumeric; the check comes before any
\* attribute is examined, so an element with an invalid tag name and an
\* invalid attribute name reports InvalidTagName.
C18_InvalidTagName ==
    res # NoResult =>
       /\ BadTagName(el.name) <=>
             (res.status = "err" /\ res.err.cause.type = "InvalidTagName")
       /\ BadTagName(el.name) =>
             /\ res.err.cause = InvalidTagName(el.name)
             /\ res.err.reverse_path = <<>>

\* rendered: an element whose tag name starts with a digit and that holds an
\* attribute whose name starts with a digit
C18_Witness ==
    /\ res # NoResult
    /\ el.name = <<"1", "a">>
    /\ <<"1", "d">> \in DOMAIN el.attributes
    /\ res.status = "err"
    /\ res.err.cause = InvalidTagName(<<"1", "a">>)

\* rendered: a tag name of letters and digits, upper case kept on a Foreign
\* element, is accepted
C18_WitnessValid ==
    /\ res # NoResult
    /\ el.name = <<"Z", "a", "1">>
    /\ res.status = "ok"

\* C19: for an element with a valid tag name, render fails with
\* InvalidAttrName(k) exactly when some attribute key violates the
\* attribute-name grammar, and k is the smallest such key in sorted key
\* order, also when attributes with valid names and children that would fail
\* are present.
C19_InvalidAttrName ==
    (res # NoResult /\ ~BadTagName(el.name)) =>
       LET bad == {k \in DOMAIN el.attributes : BadAttrName(k)}
       IN  /\ (bad # {}) <=>
                 (res.status = "err" /\ res.err.cause.type = "InvalidAttrName")
           /\ bad # {} =>
                 /\ res.err.cause.arg \in bad
                 /\ \A o \in bad \ {res.err.cause.arg} :
                       LexLess(res.err.cause.arg, o)
                 /\ res.err.reverse_path = <<>>

\* rendered: two invalid keys and a child that would fail; the smaller
\* invalid key is reported
C19_Witness ==
    /\ res # NoResult
    /\ el.name = <<"p">>
    /\ el.kind = "Foreign"
    /\ DOMAIN el.attributes = {<<"1", "d">>, <<"_", "a">>}
    /\ el.children # <<>>
    /\ res.status = "err"
    /\ res.err.cause = InvalidAttrName(<<"1", "d">>)

\* rendered: a valid key sorted before the invalid one
C19_WitnessValidFirst ==
    /\ res # NoResult
    /\ DOMAIN el.attributes = {<<"Z", "-", "_">>, <<"z", "~">>}
    /\ el.kind = "Foreign"
    /\ res.status = "err"
    /\ res.err.cause = InvalidAttrName(<<"z", "~">>)

\* rendered: valid names only, with `-`, `_` and a digit in the key; the
\* failing child decides the result
C19_WitnessChild ==
    /\ res # NoResult
    /\ DOMAIN el.attributes = {<<"a", "-", "1">>, <<"b">>}
    /\ res.status = "err"
    /\ res.err.cause = InvalidChild

(***************************************************************************)
(* SpecSink: an element is built and rendered into a sink that accepts a   *)
(* given number of writes and rejects every write after them               *)
(***************************************************************************)
MaxSinkChildren == 2
MaxSinkWrites == 12

SinkRoots ==
    { add_all_attrs(Element_new(<<"p">>, kind), attrs) :
         kind \in {"Normal", "Foreign", "Void"},
         attrs \in {<<>>, <<Attr_id(<<"x">>)>>, <<Attr_yes(<<"b">>)>>} }

SinkContentPool ==
    {Text(<<"a", "&", "b">>),
     Comment(<<"c">>),
     ElementContent(Element_new(<<"b", "r">>, "Void")),
     ElementContent(add_content(Element_new(<<"e", "m">>, "Normal"), Text(<<"<", ">">>))),
     ElementContent(input_with_child)}

InitSink ==
    /\ el \in SinkRoots
    /\ res = NoResult
    /\ tag_name = el.name
    /\ text = <<>>
    /\ ret = NoResult

\* el.add(content)
AddSinkContent ==
    \E c \in SinkContentPool :
        /\ Len(el.children) < MaxSinkChildren
        /\ el' = add_content(el, c)
        /\ res' = NoResult
        /\ UNCHANGED <<tag_name, text, ret>>

\* el.render(&mut w), for a w that accepts cap writes and rejects the rest
RenderInto ==
    /\ res = NoResult
    /\ \E cap \in 0..MaxSinkWrites :
          res' = [status |-> "rendered", cap |-> cap,
                  r |-> render_element(Sink(cap), el)]
    /\ UNCHANGED <<el, tag_name, text, ret>>

NextSink == AddSinkContent \/ RenderInto

SpecSink == InitSink /\ [][NextSink]_vars

\* C20: if the sink rejects a write at any point of a render call, the call
\* returns an error with cause Format, and no further write to the sink is
\* attempted after the rejected one, at whatever depth of the tree the
\* failure occurs.  The writes are those of the render into a String: the
\* sink rejects one exactly when that render makes more writes than the sink
\* accepts, and what was written before is the beginning of the String.
C20_SinkFailureStopsRender ==
    res # NoResult =>
       LET r == res.r
           full == render_element(String_new, el)
       IN  /\ r.w.attempts <= res.cap + 1
           /\ (r.w.attempts = res.cap + 1) <=>
                 (~r.ok /\ r.err.cause = Format)
           /\ (full.w.attempts > res.cap) <=> (r.w.attempts = res.cap + 1)
           /\ starts_with(full.w.out, r.w.out)
           /\ full.w.attempts <= res.cap =>
                 /\ r.ok = full.ok
                 /\ r.w.out = full.w.out
                 /\ ~r.ok => r.err = full.err

\* rendered: the sink rejected the write of `&gt;` inside the em child; the
\* rest of the text, `</em>`, the second child and `</p>` were never tried
C20_Witness ==
    /\ res # NoResult
    /\ el.kind = "Normal"
    /\ el.attributes = EmptyMap
    /\ Len(el.children) = 2
    /\ el.children[1].variant = "Element"
    /\ el.children[1].element.name = <<"e", "m">>
    /\ res.cap = 7
    /\ res.r.w.out = <<"<", "p", ">", "<", "e", "m", ">", "&", "l", "t", ";">>
    /\ res.r.w.attempts = 8
    /\ ~res.r.ok
    /\ res.r.err.cause = Format
    /\ Len(res.r.err.reverse_path) = 2

\* rendered: the sink accepted every write
C20_WitnessAccepted ==
    /\ res # NoResult
    /\ res.r.ok
    /\ res.r.w.attempts = res.cap
    /\ res.r.w.out = <<"<", "p", ">", "<", "b", "r", ">", "<", "/", "p", ">">>

(***************************************************************************)
(* SpecCase: an element is made from every small name in mixed case, given *)
(* one attribute with a name and a value in mixed case, and rendered       *)
(* (lib.rs, test always_lowercase)                                         *)
(***************************************************************************)
MaxCaseLen == 2

CaseAlphabet == {"A", "b", "1", "-"}

CaseNames ==
    StringsUpTo(CaseAlphabet, MaxCaseLen) \cup {<<"H", "T", "M", "L">>, <<"L", "A", "N", "G">>}

CaseValues == {<<"E", "N">>, <<"e", "N", " ", "x">>}

\* tag_name is the name given to Element::new
InitCase ==
    /\ tag_name \in CaseNames
    /\ \E kind \in ElementKind : el = Element_new(tag_name, kind)
    /\ text = <<>>
    /\ res = NoResult
    /\ ret = NoResult

\* el.with(Attr::new(name, value)); text and ret keep the name and the value
\* as given
WithCaseAttr ==
    /\ res = NoResult
    /\ ret = NoResult
    /\ \E name \in CaseNames, value \in CaseValues :
          /\ el' = add_attr(el, Attr_new(name, value))
          /\ text' = name
          /\ ret' = Returned(value)
    /\ UNCHANGED <<res, tag_name>>

NextCase == WithCaseAttr \/ RenderToString

SpecCase == InitCase /\ [][NextCase]_vars

\* s with every ASCII upper-case letter replaced by its lower-case letter
Lowered(s) ==
    [i \in 1..Len(s) |->
        IF \E k \in 1..26 : UpperCase[k] = s[i]
        THEN LowerCase[CHOOSE k \in 1..26 : UpperCase[k] = s[i]]
        ELSE s[i]]

\* C22: Element::new stores the ASCII-lowercased name when the kind is not
\* Foreign and the name as given when it is Foreign; adding an Attr stores
\* it under its ASCII-lowercased name unless the element is Foreign; the
\* value is never re-cased, in the element and in the rendered text.
C22_NamesLowercasedUnlessForeign ==
    LET stored(name) == IF el.kind = "Foreign" THEN name ELSE Lowered(name)
    IN  /\ el.name = stored(tag_name)
        /\ ret = NoResult => DOMAIN el.attributes = {}
        /\ ret # NoResult =>
              /\ DOMAIN el.attributes = {stored(text)}
              /\ el.attributes[stored(text)] = ret.value
        /\ (ret # NoResult /\ res # NoResult /\ res.status = "ok") =>
              starts_with(res.out,
                          <<"<">> \o stored(tag_name) \o <<" ">> \o stored(text)
                             \o <<"=", "\"">> \o ret.value \o <<"\"">>)

\* rendered: Element::normal("HTML").with(Attr::new("LANG", "EN"))
C22_Witness ==
    /\ tag_name = <<"H", "T", "M", "L">>
    /\ text = <<"L", "A", "N", "G">>
    /\ el.kind = "Normal"
    /\ res # NoResult
    /\ res.status = "ok"
    /\ res.out = <<"<", "h", "t", "m", "l", " ", "l", "a", "n", "g", "=", "\"", "E", "N", "\"", ">", "<", "/", "h", "t", "m", "l", ">">>

\* rendered: the same on a Foreign element keeps the case
C22_WitnessForeign ==
    /\ tag_name = <<"H", "T", "M", "L">>
    /\ text = <<"L", "A", "N", "G">>
    /\ el.kind = "Foreign"
    /\ res # NoResult
    /\ res.status = "ok"
    /\ res.out = <<"<", "H", "T", "M", "L", " ", "L", "A", "N", "G", "=", "\"", "E", "N", "\"", " ", "/", ">">>

(***************************************************************************)
(* SpecAppend: replace-mode and append-mode attributes, some of one name,  *)
(* are added to an element one after the other, and it is rendered         *)
(* (element.rs, the example of ElementComponent)                           *)
(***************************************************************************)
MaxAddCalls == 3

\* Attr::style
Attr_style(style) == Attr_append(<<"s", "t", "y", "l", "e">>, style, <<";">>)

AppendAttrPool ==
    { Attr_id(<<"f", "o", "o">>),
      Attr_class(<<"b", "a", "r">>),
      Attr_class(<<"b", "a", "z">>),
      Attr_new(<<"C", "L", "A", "S", "S">>, <<"q">>),
      Attr_yes(<<"c", "l", "a", "s", "s">>),
      Attr_style(<<"a", ":", "b">>),
      Attr_append(<<"I", "d">>, <<"x">>, <<>>) }

InitAppend ==
    /\ el \in {Element_new(<<"p">>, "Normal"), Element_new(<<"g">>, "Foreign")}
    /\ tag_name = el.name
    /\ text = <<>>
    /\ res = NoResult
    /\ ret = NoResult

\* el.add(attr); ret keeps the element as it was before the call, the Attr
\* and the number of calls made
AddAppendAttr ==
    /\ res = NoResult
    /\ (IF ret = NoResult THEN 0 ELSE ret.value.calls) < MaxAddCalls
    /\ \E attr \in AppendAttrPool :
          /\ el' = add_attr(el, attr)
          /\ ret' = Returned([before |-> el, attr |-> attr,
                              calls |-> (IF ret = NoResult THEN 0
                                         ELSE ret.value.calls) + 1])
    /\ UNCHANGED <<res, tag_name, text>>

NextAppend == AddAppendAttr \/ RenderToString

SpecAppend == InitAppend /\ [][NextAppend]_vars

\* C23: when no attribute of the (case-adjusted) name exists, the value is
\* inserted as is for replace-mode and append-mode attributes; when one
\* exists, a replace-mode Attr overwrites the value and an append-mode Attr
\* sets it to old value + separator + new value; no other attribute changes.
C23_AttrReplaceOrAppend ==
    ret # NoResult =>
       LET old == ret.value.before.attributes
           attr == ret.value.attr
           key == IF el.kind = "Foreign" THEN attr.name ELSE Lowered(attr.name)
       IN  /\ DOMAIN el.attributes = DOMAIN old \cup {key}
           /\ \A k \in DOMAIN old : k # key => el.attributes[k] = old[k]
           /\ key \notin DOMAIN old => el.attributes[key] = attr.value
           /\ (key \in DOMAIN old /\ ~attr.append_by.some) =>
                 el.attributes[key] = attr.value
           /\ (key \in DOMAIN old /\ attr.append_by.some) =>
                 el.attributes[key] = old[key] \o attr.append_by.v \o attr.value
           /\ el.name = ret.value.before.name
           /\ el.kind = ret.value.before.kind
           /\ el.children = ret.value.before.children

\* rendered: id "foo", class "bar", then class "baz"
C23_Witness ==
    /\ res # NoResult
    /\ ret # NoResult
    /\ ret.value.calls = 3
    /\ ret.value.attr = Attr_class(<<"b", "a", "z">>)
    /\ <<"c", "l", "a", "s", "s">> \in DOMAIN ret.value.before.attributes
    /\ ret.value.before.attributes[<<"c", "l", "a", "s", "s">>] = <<"b", "a", "r">>
    /\ res.out = <<"<", "p", " ", "c", "l", "a", "s", "s", "=", "\"", "b", "a", "r", " ", "b", "a", "z", "\"", " ", "i", "d", "=", "\"", "f", "o", "o", "\"", ">", "<", "/", "p", ">">>

\* added: a replace-mode attribute over a value that was appended to
C23_WitnessReplace ==
    /\ ret # NoResult
    /\ el.kind = "Normal"
    /\ ret.value.attr = Attr_new(<<"C", "L", "A", "S", "S">>, <<"q">>)
    /\ ret.value.before.attributes = (<<"c", "l", "a", "s", "s">> :> <<"b", "a", "r", " ", "b", "a", "z">>)
    /\ el.attributes = (<<"c", "l", "a", "s", "s">> :> <<"q">>)

(***************************************************************************)
(* SpecCompose: composite components are added to an element one call      *)
(* after the other, and it is rendered                                     *)
(***************************************************************************)
MaxComposeCalls == 3

\* em("world")
em_world == add_content(Element_new(<<"e", "m">>, "Normal"), Text(<<"w", "o", "r", "l", "d">>))

\* {"A": "upper", "a": "lower"}
upper_lower ==
    (<<"A">> :> <<"u", "p", "p", "e", "r">>) @@ (<<"a">> :> <<"l", "o", "w", "e", "r">>)

\* {"b": "1", "A": "2", "a": "3"}
b_A_a == (<<"b">> :> <<"1">>) @@ (<<"A">> :> <<"2">>) @@ (<<"a">> :> <<"3">>)

ComponentPool ==
    { ContentOf(Text(<<"a">>)),
      Tuple(<<ContentOf(Text(<<"H", "e", "l", "l", "o", " ">>)), ContentOf(ElementContent(em_world)),
              ContentOf(Text(<<"!">>))>>),
      Vec(<<ContentOf(Text(<<"1">>)), ContentOf(Text(<<"2">>))>>),
      OptionNone,
      Unit,
      Tuple(<<AttrOf(Attr_id(<<"f", "o", "o">>)),
              ContentOf(Text(<<"x">>)),
              Tuple(<<OptionSome(ContentOf(Text(<<"y">>))),
                      OptionNone,
                      Array(<<ContentOf(Raw(<<"<", "i", ">">>)), ContentOf(Comment(<<"c">>))>>),
                      Unit>>),
              ContentOf(Text(<<"z">>))>>),
      OptionSome(Vec(<<ContentOf(Text(<<"3">>)), Vec(<<>>), ContentOf(Text(<<"4">>))>>)),
      ResultErr(ContentOf(Text(<<"e">>))),
      HashMap(upper_lower),
      BTreeMap(b_A_a),
      Tuple(<<ContentOf(Text(<<"m">>)), HashMap(upper_lower),
              ContentOf(Text(<<"n">>))>>) }

InitCompose ==
    /\ el \in {Element_new(<<"p">>, "Normal"), Element_new(<<"g">>, "Foreign")}
    /\ tag_name = el.name
    /\ text = <<>>
    /\ res = NoResult
    /\ ret = NoResult

\* el.add(component), every HashMap in the component yielding its entries
\* in one of the orders it may; ret keeps the element as it was before the
\* call, the component and the number of calls made
AddComponent ==
    /\ res = NoResult
    /\ (IF ret = NoResult THEN 0 ELSE ret.value.calls) < MaxComposeCalls
    /\ \E comp \in ComponentPool : \E run \in IterationOrders(comp) :
          /\ el' = add_to_element(el, run)
          /\ ret' = Returned([before |-> el, comp |-> comp,
                              calls |-> (IF ret = NoResult THEN 0
                                         ELSE ret.value.calls) + 1])
    /\ UNCHANGED <<res, tag_name, text>>

NextCompose == AddComponent \/ RenderToString

SpecCompose == InitCompose /\ [][NextCompose]_vars

\* the content components of a component, left to right, nested composites
\* flattened in place
RECURSIVE ContentsOf(_)
RECURSIVE ContentsOfAll(_)
ContentsOf(comp) ==
    IF comp.c = "content" THEN <<comp.content>>
    ELSE IF comp.c \in {"some", "ok", "err"} THEN ContentsOf(comp.inner)
    ELSE IF comp.c \in {"tuple", "array", "vec"} THEN ContentsOfAll(comp.items)
    ELSE <<>>

ContentsOfAll(items) ==
    IF items = <<>> THEN <<>>
    ELSE ContentsOf(Head(items)) \o ContentsOfAll(Tail(items))

\* what each of the children writes when rendered alone, one after the other
RECURSIVE ChildrenOutput(_)
ChildrenOutput(children) ==
    IF children = <<>> THEN <<>>
    ELSE render_content(String_new, Head(children)).w.out
            \o ChildrenOutput(Tail(children))

\* C24: content components are appended to the children in the order they
\* are added (composites left to right, nested composites flattened in
\* place, None and () adding nothing), the children already there are
\* neither reordered nor removed, and render emits the children in exactly
\* that order.
C24_ChildrenInOrderAdded ==
    /\ ret # NoResult =>
          el.children = ret.value.before.children \o ContentsOf(ret.value.comp)
    /\ (res # NoResult /\ el.children # <<>>) =>
          /\ res.status = "ok"
          /\ res.out = OpeningTag(el) \o <<">">> \o ChildrenOutput(el.children)
                          \o <<"<", "/">> \o el.name \o <<">">>

\* rendered: a nested composite added after a tuple
C24_Witness ==
    /\ res # NoResult
    /\ el.kind = "Normal"
    /\ ret # NoResult
    /\ ret.value.calls = 2
    /\ Len(ret.value.before.children) = 3
    /\ res.status = "ok"
    /\ res.out = <<"<", "p", " ", "i", "d", "=", "\"", "f", "o", "o", "\"", ">", "H", "e", "l", "l", "o", " ", "<", "e", "m", ">", "w", "o", "r", "l", "d", "<", "/", "e", "m", ">", "!", "x", "y", "<", "i", ">", "c", "z", "<", "/", "p", ">">>

\* added: a HashMap between two contents; its entries come after one
\* another onto one lowercased key, here "A" last, and the contents stay in
\* their order
C24_WitnessMap ==
    /\ ret # NoResult
    /\ el.kind = "Normal"
    /\ ret.value.comp = Tuple(<<ContentOf(Text(<<"m">>)), HashMap(upper_lower),
                                ContentOf(Text(<<"n">>))>>)
    /\ el.attributes = (<<"a">> :> <<"u", "p", "p", "e", "r">>)
    /\ el.children = ret.value.before.children \o <<Text(<<"m">>), Text(<<"n">>)>>

\* added: None and () leave the children as they were
C24_WitnessNothing ==
    /\ ret # NoResult
    /\ ret.value.comp = OptionNone
    /\ ret.value.before.children # <<>>
    /\ el.children = ret.value.before.children

(***************************************************************************)
(* Spec, continued: the children of Template, Normal and Foreign elements  *)
(***************************************************************************)
\* what a child contributes under the generic rule: Raw as given, Text
\* text-escaped, Comment mangled, with or without the comment delimiters
\* around it (C15), Element as its own rendering
GenericOutputs(child) ==
    CASE child.variant = "Raw" -> {child.text}
      [] child.variant = "Text" -> {render_text(String_new, child.text).w.out}
      [] child.variant = "Comment" ->
            {Spaced(Mangled(child.text)),
             <<"<", "!", "-", "-">> \o Spaced(Mangled(child.text)) \o <<"-", "-", ">">>}
      [] child.variant = "Element" ->
            LET own == render_to_string(child.element)
            IN  IF own.status = "ok" THEN {own.out} ELSE {}

\* out is made of one generic output per child, in order
RECURSIVE IsGenericOutput(_, _)
IsGenericOutput(out, children) ==
    IF children = <<>> THEN out = <<>>
    ELSE \E o \in GenericOutputs(Head(children)) :
            /\ starts_with(out, o)
            /\ IsGenericOutput(SliceFrom(out, Len(o)), Tail(children))

\* the child at position i is an Element whose own rendering fails
OwnRenderingFails(e, i) ==
    /\ e.children[i].variant = "Element"
    /\ render_to_string(e.children[i].element).status = "err"

\* C25: under a parent of kind Template, Normal or Foreign no child variant
\* is rejected by the parent: render fails at index i only if the child at i
\* is an Element whose own rendering fails, and then with that rendering's
\* cause; otherwise Raw is emitted verbatim, Text text-escaped, Comment
\* mangled and Element rendered recursively, under Foreign as under Normal.
C25_GenericChildren ==
    (/\ res # NoResult
     /\ el.kind \in {"Template", "Normal", "Foreign"}
     /\ ValidNames(el)
     /\ el.children # <<>>)
        => LET failing == {i \in 1..Len(el.children) : OwnRenderingFails(el, i)}
           IN  /\ (res.status = "err") <=> (failing # {})
               /\ res.status = "err" =>
                     LET i == CHOOSE i \in failing : \A j \in failing : i <= j
                         own == render_to_string(el.children[i].element)
                         path == res.err.reverse_path
                     IN  /\ res.err.cause = own.err.cause
                         /\ Len(path) = Len(own.err.reverse_path) + 1
                         /\ SubSeq(path, 1, Len(path) - 1) = own.err.reverse_path
                         /\ LeadingNumber(path[Len(path)], 0) = i - 1
               /\ res.status = "ok" =>
                     LET open == OpeningTag(el) \o <<">">>
                         close == <<"<", "/">> \o el.name \o <<">">>
                     IN  /\ starts_with(res.out, open)
                         /\ ends_with(res.out, close)
                         /\ Len(res.out) >= Len(open) + Len(close)
                         /\ IsGenericOutput(
                               SubSeq(res.out, Len(open) + 1,
                                      Len(res.out) - Len(close)),
                               el.children)

\* rendered: a Foreign element with a Text child and a Comment child
C25_Witness ==
    /\ res # NoResult
    /\ el.kind = "Foreign"
    /\ el.children = <<Text(<<"a", "&", "b">>), Comment(<<"c">>)>>
    /\ res.status = "ok"
    /\ starts_with(res.out, <<"<", "P", ">", "a", "&", "a", "m", "p", ";", "b">>)

\* failed: a Template element whose second child is an Element that fails
C25_WitnessErr ==
    /\ res # NoResult
    /\ el.kind = "Template"
    /\ ValidNames(el)
    /\ Len(el.children) = 2
    /\ el.children[1].variant = "Raw"
    /\ OwnRenderingFails(el, 2)
    /\ res.status = "err"
    /\ res.err.cause = InvalidChild

(***************************************************************************)
(* SpecRaw: an element of each kind that accepts a Raw child is rendered   *)
(* with every small text as its only child, a Raw                          *)
(***************************************************************************)
MaxRawChildLen == 4

RawChildAlphabet == {"<", "/", "a", ">", "&", "\""}

RawChildTexts ==
    StringsUpTo(RawChildAlphabet, MaxRawChildLen)
       \cup {<<"<", "/", "a", ">", "&", "a", "m", "p", ";", "<", "!", "-", "-", "x", "-", "-", ">", "<", "/", "a", " ", ">">>}

RawParentKinds ==
    {"RawText", "EscapableRawText", "Template", "Normal", "Foreign"}

InitRaw ==
    /\ tag_name = <<"a">>
    /\ text \in RawChildTexts
    /\ \E kind \in RawParentKinds :
          el = add_content(Element_new(tag_name, kind), Raw(text))
    /\ res = NoResult
    /\ ret = NoResult

RenderRawChild ==
    /\ res = NoResult
    /\ res' = render_to_string(el)
    /\ UNCHANGED <<el, tag_name, text, ret>>

NextRaw == RenderRawChild

SpecRaw == InitRaw /\ [][NextRaw]_vars

\* C26: a Raw child is written exactly as given under every parent kind
\* that accepts it (RawText, EscapableRawText, Template, Normal, Foreign),
\* with no escaping and no validation; a Raw child of a RawText element
\* that holds `</` + the element's name + `>` is emitted unchanged and does
\* not cause InvalidRawText.
C26_RawVerbatim ==
    res # NoResult =>
       /\ res.status = "ok"
       /\ res.out = <<"<">> \o el.name \o <<">">> \o text
                       \o <<"<", "/">> \o el.name \o <<">">>

\* rendered: a RawText element whose Raw child is its own closing tag
C26_Witness ==
    /\ res # NoResult
    /\ el.kind = "RawText"
    /\ text = <<"<", "/", "a", ">">>
    /\ ~is_valid_raw_text(el.name, text)
    /\ res.status = "ok"
    /\ res.out = <<"<", "a", ">", "<", "/", "a", ">", "<", "/", "a", ">">>

\* rendered: a Normal element whose Raw child holds the characters that
\* text and attribute escaping change
C26_WitnessNormal ==
    /\ res # NoResult
    /\ el.kind = "Normal"
    /\ text = <<"<", "&", "\"", ">">>
    /\ res.out = <<"<", "a", ">", "<", "&", "\"", ">", "<", "/", "a", ">">>

\* the elements of the tree of e: e, its Element children, and theirs
RECURSIVE ElementsOf(_)
ElementsOf(e) ==
    {e} \cup UNION {ElementsOf(e.children[i].element) :
                       i \in {j \in 1..Len(e.children) :
                                 e.children[j].variant = "Element"}}

\* no element of the tree of e has a Raw child
NoRawContent(e) ==
    \A x \in ElementsOf(e) :
       \A i \in 1..Len(x.children) : x.children[i].variant # "Raw"

\* the position of the first c in s, or 0
FirstIndexOf(s, c) ==
    IF \E i \in 1..Len(s) : s[i] = c
    THEN CHOOSE i \in 1..Len(s) : s[i] = c /\ \A j \in 1..(i - 1) : s[j] # c
    ELSE 0

\* out, read tag by tag: a closing tag closes the innermost open element,
\* an opening tag opens one unless it ends with `/` or names a void element,
\* and nothing is left open at the end
RECURSIVE ProperlyNested(_, _, _)
ProperlyNested(out, open, voids) ==
    IF out = <<>> THEN open = <<>>
    ELSE IF Head(out) # "<" THEN ProperlyNested(Tail(out), open, voids)
    ELSE LET end == FirstIndexOf(out, ">")
             tag == SubSeq(out, 2, end - 1)
             rest == SliceFrom(out, end)
             space == FirstIndexOf(tag, " ")
             name == IF space = 0 THEN tag ELSE SubSeq(tag, 1, space - 1)
         IN  /\ end >= 3
             /\ IF tag[1] = "/"
                THEN /\ open # <<>>
                     /\ Tail(tag) = Head(open)
                     /\ ProperlyNested(rest, Tail(open), voids)
                ELSE IF tag[1] = "!" \/ tag[Len(tag)] = "/" \/ name \in voids
                THEN ProperlyNested(rest, open, voids)
                ELSE ProperlyNested(rest, <<name>> \o open, voids)

\* C27: every successful render of an element with at least one child emits
\* `<name` + attributes + `>`, then the children's output, then `</name>`
\* with the name of the opening tag; `</name>` is never emitted for a Void
\* element in a successful render; and in a tree without Raw content every
\* emitted opening tag of an element that is neither Void nor an empty
\* Foreign element is matched by its closing tag, properly nested.
C27_ClosingTags ==
    (res # NoResult /\ res.status = "ok") =>
       /\ el.children # <<>> =>
             /\ el.kind # "Void"
             /\ res.out = OpeningTag(el) \o <<">">>
                             \o RenderChildrenFrom(String_new, el, 0).w.out
                             \o <<"<", "/">> \o el.name \o <<">">>
       /\ \A x \in ElementsOf(el) :
             x.kind = "Void" =>
                /\ x.children = <<>>
                /\ ~Contains(res.out, <<"<", "/">> \o x.name \o <<">">>)
       /\ NoRawContent(el) =>
             ProperlyNested(res.out, <<>>,
                            {x.name : x \in {y \in ElementsOf(el) : y.kind = "Void"}})

\* rendered: an element with an attribute and, as children, a void element
\* and an element with a text
C27_Witness ==
    /\ res # NoResult
    /\ res.status = "ok"
    /\ el.kind = "Normal"
    /\ NoRawContent(el)
    /\ res.out = <<"<", "p", " ", "i", "d", "=", "\"", "x", "\"", ">", "<", "b", "r", ">", "<", "e", "m", ">", "&", "l", "t", ";", "&", "g", "t", ";", "<", "/", "e", "m", ">", "<", "/", "p", ">">>

\* rendered: a Void element, no closing tag
C27_WitnessVoid ==
    /\ res # NoResult
    /\ res.status = "ok"
    /\ el.kind = "Void"
    /\ res.out = <<"<", "p", " ", "c", "l", "a", "s", "s", "=", "\"", "c", "\"", ">">>

(***************************************************************************)
(* SpecAscii: elements whose name field holds ASCII and non-ASCII          *)
(* characters, with text children, alone and as a child, are rendered      *)
(***************************************************************************)
MaxFieldNameLen == 2

FieldAlphabet == {"a", "é", "É", "1"}

\* the name field is public: any string can be in it
FieldNames == StringsUpTo(FieldAlphabet, MaxFieldNameLen)

FieldChildren ==
    { <<>>,
      <<Text(<<"x">>)>>,
      <<Text(<<"<", "/", "a", ">">>)>>,
      <<Text(<<"<", "/", "é", ">">>)>>,
      <<Raw(<<"r">>), Text(<<"x">>)>> }

\* Element { name, kind, attributes: BTreeMap::new(), children }
ElementWithFields(name, kind, children) ==
    [name |-> name, kind |-> kind, attributes |-> EmptyMap,
     children |-> children]

InitAscii ==
    /\ tag_name \in FieldNames
    /\ text = <<>>
    /\ \E kind \in ElementKind, children \in FieldChildren, nested \in BOOLEAN :
          LET e == ElementWithFields(tag_name, kind, children)
          IN  el = IF nested
                   THEN add_content(Element_new(<<"d", "i", "v">>, "Normal"),
                                    ElementContent(e))
                   ELSE e
    /\ res = NoResult
    /\ ret = NoResult

RenderFields ==
    /\ res = NoResult
    /\ res' = render_to_string(el)
    /\ UNCHANGED <<el, tag_name, text, ret>>

NextAscii == RenderFields

SpecAscii == InitAscii /\ [][NextAscii]_vars

\* C28: the assertion tag_name.is_ascii() of is_valid_raw_text never fails
\* in a call reached through render, also for elements whose name field
\* holds non-ASCII text: render returns InvalidTagName before the RawText
\* child dispatch can call is_valid_raw_text with such a name.
C28_AssertNeverFails ==
    res # NoResult =>
       /\ res.status = "err" => res.err.cause # AssertionFailed
       /\ ~is_ascii(tag_name) =>
             /\ res.status = "err"
             /\ res.err.cause = InvalidTagName(tag_name)

\* rendered: a RawText element with a non-ASCII name and a Text child
C28_Witness ==
    /\ res # NoResult
    /\ el.kind = "RawText"
    /\ el.name = <<"a", "é">>
    /\ el.children = <<Text(<<"x">>)>>
    /\ res.status = "err"
    /\ res.err.cause = InvalidTagName(<<"a", "é">>)

\* rendered: the same element as the child of div
C28_WitnessNested ==
    /\ res # NoResult
    /\ el.name = <<"d", "i", "v">>
    /\ el.children[1].element.kind = "RawText"
    /\ el.children[1].element.name = <<"É">>
    /\ el.children[1].element.children = <<Text(<<"x">>)>>
    /\ res.status = "err"
    /\ res.err.cause = InvalidTagName(<<"É">>)

(***************************************************************************)
(* SpecFrame: an element is given children and rendered into a String;     *)
(* the String is looked at after a failure too                             *)
(***************************************************************************)
MaxFrameChildren == 2

FrameRoots ==
    { add_all_attrs(Element_new(name, kind), attrs) :
         name \in RootNames, kind \in ElementKind,
         attrs \in {<<>>, <<Attr_id(<<"x">>)>>,
                    <<Attr_id(<<"x">>), Attr_new(<<"1", "d">>, <<"v">>)>>} }

\* the children of Spec, an element that holds a text and then an element
\* with an invalid tag name, and an element with an invalid attribute name
FrameContentPool ==
    ContentPool \cup
    { ElementContent(
         [Element_new(<<"e", "m">>, "Normal") EXCEPT !.children =
             <<Text(<<"t">>), ElementContent(Element_new(<<"1", "x">>, "Normal"))>>]),
      ElementContent(add_attr(Element_new(<<"b">>, "Normal"),
                              Attr_new(<<"1", "d">>, <<"v">>))) }

InitFrame ==
    /\ el \in FrameRoots
    /\ tag_name = el.name
    /\ text = <<>>
    /\ res = NoResult
    /\ ret = NoResult

\* el.add(content)
AddFrameContent ==
    \E c \in FrameContentPool :
        /\ Len(el.children) < MaxFrameChildren
        /\ el' = add_content(el, c)
        /\ res' = NoResult
        /\ UNCHANGED <<tag_name, text, ret>>

\* let mut s = String::new(); let r = el.render(&mut s);
RenderFrame ==
    /\ res = NoResult
    /\ res' = [status |-> "rendered", r |-> render_element(String_new, el)]
    /\ UNCHANGED <<el, tag_name, text, ret>>

NextFrame == AddFrameContent \/ RenderFrame

SpecFrame == InitFrame /\ [][NextFrame]_vars

\* e with its first n children only
WithFirstChildren(e, n) == [e EXCEPT !.children = SubSeq(@, 1, n)]

\* out is what the frames on the way to the node at indices wrote before
\* the node was entered: per frame the opening tag, `>`, and the output of
\* the children before the index
RECURSIVE IsWrittenBefore(_, _, _)
IsWrittenBefore(out, e, indices) ==
    IF indices = <<>> THEN out = <<>>
    ELSE LET open == OpeningTag(e) \o <<">">>
             before == SubSeq(e.children, 1, Head(indices))
             child == e.children[Head(indices) + 1]
         IN  /\ starts_with(out, open)
             /\ child.variant = "Element"
             /\ \E n \in 0..(Len(out) - Len(open)) :
                   /\ IsGenericOutput(SubSeq(out, Len(open) + 1, Len(open) + n),
                                      before)
                   /\ IsWrittenBefore(SliceFrom(out, Len(open) + n),
                                      child.element, Tail(indices))

\* C29: when rendering an element fails with InvalidTagName or
\* InvalidAttrName raised by that element itself, that element's frame has
\* written nothing: the sink holds exactly what the ancestors and the
\* preceding siblings wrote before the element was entered, and is empty
\* when the failing element is the root.
C29_NothingWrittenByFailingFrame ==
    (/\ res # NoResult
     /\ ~res.r.ok
     /\ res.r.err.cause.type \in {"InvalidTagName", "InvalidAttrName"})
        => /\ IsWrittenBefore(res.r.w.out, el, FailingIndices(res.r.err))
           /\ res.r.err.reverse_path = <<>> => res.r.w.out = <<>>

\* failed: the root has a valid tag name, a valid and an invalid attribute
\* name, and children
C29_Witness ==
    /\ res # NoResult
    /\ ~res.r.ok
    /\ res.r.err = Error_new(InvalidAttrName(<<"1", "d">>))
    /\ el.name = <<"p">>
    /\ Len(el.children) = 2
    /\ res.r.w.out = <<>>

\* failed: the element with the invalid tag name is the second child of the
\* second child of the root
C29_WitnessNested ==
    /\ res # NoResult
    /\ ~res.r.ok
    /\ res.r.err.cause = InvalidTagName(<<"1", "x">>)
    /\ FailingIndices(res.r.err) = <<1, 1>>
    /\ res.r.w.out = <<"<", "p", " ", "i", "d", "=", "\"", "x", "\"", ">", "a", "&", "a", "m", "p", ";", "b", "<", "e", "m", ">", "t">>

\* C30: children are processed strictly in index order and the first
\* failure stops the traversal: the error returned is the one raised at the
\* first failing node in document order, no child with a larger index than
\* the failing child is rendered or validated, and the closing tags of the
\* enclosing elements are not written.
C30_FirstFailureStops ==
    (/\ res # NoResult
     /\ ~res.r.ok
     /\ res.r.err.reverse_path # <<>>)
        => LET i == FailingIndices(res.r.err)[1]
               child == el.children[i + 1]
               before == render_element(String_new, WithFirstChildren(el, i))
               upto == render_element(String_new, WithFirstChildren(el, i + 1))
               alone == RenderChild(String_new, el, child)
               written == OpeningTag(el) \o <<">">>
                             \o RenderChildrenFrom(String_new,
                                                   WithFirstChildren(el, i), 0).w.out
           IN  /\ i < Len(el.children)
               /\ before.ok
               /\ \A j \in 1..i : RenderChild(String_new, el, el.children[j]).ok
               /\ ~alone.ok
               /\ res.r.err.cause = alone.err.cause
               /\ SubSeq(res.r.err.reverse_path, 1,
                         Len(res.r.err.reverse_path) - 1) = alone.err.reverse_path
               /\ res.r.err = upto.err
               /\ res.r.w = upto.w
               /\ res.r.w.out = written \o alone.w.out
               /\ NoRawContent(el) =>
                     ~ends_with(res.r.w.out, <<"<", "/">> \o el.name \o <<">">>)

\* failed: the first child fails inside its own child, and a second that
\* would fail with InvalidTagName comes after it
C30_Witness ==
    /\ res # NoResult
    /\ ~res.r.ok
    /\ el.kind = "Normal"
    /\ Len(el.children) = 2
    /\ el.children[1] = ElementContent(input_with_child)
    /\ el.children[2] = ElementContent(Element_new(<<"1", "x">>, "Normal"))
    /\ res.r.err.cause = InvalidChild
    /\ FailingIndices(res.r.err) = <<0, 0>>
    /\ res.r.w.out = <<"<", "p", ">", "<", "i", "n", "p", "u", "t", ">">>

=============================================================================
